---- MODULE Spec2Model ----
(***************************************************************************)
(* Reiatsu request dispatch: Router.handle (src/src/core/router.ts), the   *)
(* chain executor runMiddlewares (src/src/core/middleware.ts), the         *)
(* timeout guard and the error handler middleware, run on a model of the   *)
(* JavaScript event loop: one synchronous call stack, a FIFO queue of      *)
(* promise reactions (microtasks) and macrotasks (I/O completions, timers) *)
(* that run only when both are empty.                                      *)
(*                                                                         *)
(* An invocation of an async function is a frame.  runNext(index) awaits   *)
(* exactly the middleware (or handler) it calls and settles as it settles, *)
(* so the two are one frame.  Middleware and handlers supplied by the      *)
(* application ("user") are code the router does not know: each invocation *)
(* behaves as one of a few scripts (MwScripts, HandlerScripts), chosen     *)
(* when it is called.                                                      *)
(***************************************************************************)
EXTENDS Integers, Sequences, FiniteSets, TLC

\* ----------------------------------------------------------------- bounds
MaxGlobal == 2      \* global middleware registered with use
MaxRoutes == 2      \* routes registered
MaxRouteMw == 1     \* route-local middleware per route
MaxNext == 2        \* calls of next made by a middleware that calls it again
MaxFrames == 10     \* invocations alive at the same time (with the other bounds as they are, no call ever finds all in use)

MaxPos == (IF MaxGlobal > MaxRouteMw THEN MaxGlobal ELSE MaxRouteMw) + 1

\* ------------------------------------------------------------ value shapes
MwKinds == {"user", "errorHandler", "timeout"}

\* What an application middleware does in one invocation:
\*   pass       await next(); return
\*   slow       await of some I/O; await next(); return
\*   stop       return
\*   respond    write the response; return
\*   throwPre   throw
\*   throwPost  await next(); throw
\*   again      await next(), MaxNext times; return
\*   forget     next() without await; return       (loggerMiddleware)
\* and an application handler:
\*   respond, stop, throwPre as above
\*   slowRespond  await of some I/O; write the response; return
\* None of them has a try around next: a rejected next() is rethrown.
MwScripts == {"pass", "slow", "stop", "respond", "throwPre", "throwPost", "again", "forget"}
HandlerScripts == {"respond", "slowRespond", "stop", "throwPre"}

NoRes == [k |-> "none", code |-> "", chain |-> 0, idx |-> 0]
OkRes == [k |-> "ok", code |-> "", chain |-> 0, idx |-> 0]
\* A failure, identified by what it is and where it was raised.
Err(code, c, i) == [k |-> "err", code |-> code, chain |-> c, idx |-> i]

NoResponse == [status |-> 0, body |-> ""]
Free ==
  [fn |-> "free", kind |-> "", chain |-> 0, idx |-> 0, parent |-> 0,
   script |-> "", st |-> "", nexts |-> 0, res |-> NoRes, io |-> FALSE, wrote |-> FALSE]

\* ------------------------------------------------------------------ routes
\* A path is the sequence of its segments ("/users/42" is <<"users","42">>,
\* "/users/" is <<"users","">>); a pattern segment is a literal, a :name
\* parameter or the final wildcard.
Lit(s) == [t |-> "lit", v |-> s]
Param(n) == [t |-> "param", v |-> n]
Wild == [t |-> "wild", v |-> "wildcard"]

\* The routes the application registers, in any order: /users/:id behind
\* MaxRouteMw middleware of its own, and /users/me.
RouteChoices ==
  { [method |-> "GET", path |-> <<Lit("users"), Param("id")>>,
     middlewares |-> [i \in 1..MaxRouteMw |-> "user"]],
    [method |-> "GET", path |-> <<Lit("users"), Lit("me")>>, middlewares |-> <<>>] }

\* The requests received; hostOk: the Host header makes a base URL.
Requests ==
  { [method |-> "GET", path |-> <<"users", "me">>, hostOk |-> TRUE],
    [method |-> "GET", path |-> <<"users", "42">>, hostOk |-> TRUE],
    [method |-> "GET", path |-> <<"users", "">>, hostOk |-> TRUE],
    [method |-> "POST", path |-> <<"users", "42">>, hostOk |-> TRUE],
    [method |-> "GET", path |-> <<"users", "42">>, hostOk |-> FALSE] }

RECURSIVE SegsMatch(_, _)
SegsMatch(pat, path) ==
  IF pat = <<>> THEN path = <<>>
  ELSE IF Head(pat).t = "wild" /\ Len(pat) = 1 THEN path # <<>>
  ELSE /\ path # <<>>
       /\ CASE Head(pat).t = "lit" -> Head(path) = Head(pat).v
            [] Head(pat).t = "param" -> Head(path) # ""
            [] OTHER -> Head(path) = "*"
       /\ SegsMatch(Tail(pat), Tail(path))

\* regex.exec(path) of the compiled pattern: the groups that took part.
Groups(pat, path) ==
  { <<pat[i].v, IF pat[i].t = "wild" THEN SubSeq(path, i, Len(path)) ELSE <<path[i]>>>> :
      i \in { j \in 1..Len(pat) : pat[j].t \in {"param", "wild"} } }

Truthy(val) == val # <<"">>

RouteMatches(route, method, path) ==
  route.method = method /\ SegsMatch(route.path, path)

\* matchRoute without the test of the method
FirstMatchAnyMethod(rs, method, path) ==
  LET hits == { r \in 1..Len(rs) : SegsMatch(rs[r].path, path) }
  IN IF hits = {} THEN 0 ELSE CHOOSE r \in hits : \A q \in hits : r <= q

\* matchRoute: the first route, in registration order, that matches.
FirstMatchIn(rs, method, path) ==
  LET hits == { r \in 1..Len(rs) : RouteMatches(rs[r], method, path) }
  IN IF hits = {} THEN 0 ELSE CHOOSE r \in hits : \A q \in hits : r <= q

MatchParams(route, path) ==
  { g \in Groups(route.path, path) : Truthy(g[2]) }

\* --------------------------------------------------------------- variables
VARIABLES
  phase,              \* "setup", then the promise of handle: "pending", "resolved", "rejected", "served"
  globalMiddlewares,  \* Router.globalMiddlewares
  routes,             \* Router.routes
  req,                \* the request being handled
  ctxParams,          \* ctx.params
  frames,             \* the invocations alive
  stack,              \* the synchronous call stack, top last
  micro,              \* promise reactions queued: the frames to resume
  timers,             \* frames whose setTimeout is armed
  response,           \* the response written (the first write)
  extraWrites,        \* writes attempted after the response was written
  startsAt,           \* [chain][position]: invocations started
  nextsAt,            \* [chain][position]: calls of next made
  orderly,            \* so far every middleware awaited next once and nothing failed
  trace,              \* the enter/leave events of an orderly run
  doubled,            \* some invocation called next a second time
  detached,           \* some call of next was not awaited to its end
  lateStart,          \* an invocation started behind the position of the first failure
  firstFail,          \* the first failure raised
  catches,            \* some middleware caught a failure
  handleErr,          \* the failure caught by Router.handle
  thrown,             \* what the last registration call threw ("" when it returned)
  matchResult,        \* what the last call of Router.matchRoute returned
  stage,              \* per concurrent request: how far its handling has come
  incoming,           \* per concurrent request: what the request carries
  heap,               \* the objects allocated: each a set of <<key, value>>
  contexts,           \* per concurrent request: its Context
  observed,           \* per concurrent request: what its handler read from its Context
  queryStage,         \* building the query map: "idle", "forEach", "built"
  searchParams,       \* fullUrl.searchParams: the <<key, value>> pairs of the query string
  visited,            \* how many pairs forEach has visited
  query,              \* the query object: a set of <<key, value>>
  fileHelper,         \* the file helper that was called, "none" before
  fileInput,          \* the url or file path it was called with
  fileReads,          \* the paths it handed to the file system
  fileOutcome,        \* what it did: a status, "next", or the error thrown
  composeStage,       \* "idle", then "chosen": the middleware to compose are chosen
  composeInput,       \* the middleware composed, what is around them, the handler
  inlineRun,          \* the run of runMiddlewares with them listed inline
  composedRun,        \* the run of runMiddlewares with compose(...) of them as one
  setCookie,          \* the Set-Cookie header of the response
  cookieCalls,        \* the calls of Context.cookie made on it, in their order
  limiter,            \* the limiter created: maxRequests and windowMs
  clock,              \* Date.now()
  requestCounts,      \* the Map requestCounts: per client id its entry, if any
  seen,               \* requests the limiter has seen
  window,             \* per client id: the window its requests are in, and what passed in it
  lastRequest,        \* per client id: its last request, how it was found and how it ended
  shuttingDown,       \* setupGracefulShutdown: shuttingDown
  activeRequests,     \* setupGracefulShutdown: activeRequests
  exited,             \* the process has ended: "" while it runs, then how
  cleanup,            \* opts.onShutdown: "" before the signal, "running" or "hangs" while awaited, then "over"
  served,             \* per request of the server: what happened to it
  cacheTtl,           \* cache(ttlSeconds): ttlSeconds, 0 before it is created
  cacheNow,           \* Date.now() for the cache, in ms
  cacheStore,         \* the Map cacheStore: per key its entry, if any
  cached,             \* per request through the cache: what happened to it
  parser,             \* bodyParserMiddleware: the request it was called with and where it is
  rawBody,            \* the texts of the chunks kept so far
  size,               \* the lengths of the chunks added up
  exceededLimit,      \* the flag of the data listener
  parsed,             \* what the body parser did: writes, calls of next, its promise
  csrfChecked,        \* per request through the CSRF middleware: its input and what was done
  handled,            \* per request through errorHandlerMiddleware: the failure and what was done with it
  listed,             \* the array the last call of getRoutes returned, as its caller has left it
  limiters,           \* per call of createRateLimiter: the maxRequests and windowMs of its closure
  ownCounts,          \* per limiter: the table it would have were it the only limiter
  through             \* per limiter: how its last request ended, and how it would have ended alone

cfgVars == <<globalMiddlewares, routes>>
runVars == <<frames, stack, micro, timers>>
resVars == <<response, extraWrites>>
histVars == <<startsAt, nextsAt, orderly, trace, doubled, detached, lateStart, firstFail, catches, handleErr>>
\* the variables of the other specifications of this module
matchVars == <<thrown, matchResult>>
ctxVars == <<stage, incoming, heap, contexts, observed>>
queryVars == <<queryStage, searchParams, visited, query>>
fileVars == <<fileHelper, fileInput, fileReads, fileOutcome>>
composeVars == <<composeStage, composeInput, inlineRun, composedRun>>
cookieVars == <<setCookie, cookieCalls>>
rateVars == <<limiter, clock, requestCounts, seen, window, lastRequest>>
serveVars == <<shuttingDown, activeRequests, exited, cleanup, served>>
cacheVars == <<cacheTtl, cacheNow, cacheStore, cached>>
bodyVars == <<parser, rawBody, size, exceededLimit, parsed>>
csrfVars == <<csrfChecked>>
errorVars == <<handled>>
tableVars == <<listed>>
pairVars == <<limiters, ownCounts, through>>
moreVars == <<queryVars, fileVars, composeVars, cookieVars, rateVars, serveVars, cacheVars, bodyVars, csrfVars, errorVars, tableVars, pairVars>>
otherVars == <<matchVars, ctxVars, moreVars>>
dispatchVars == <<phase, cfgVars, req, ctxParams, runVars, resVars, histVars>>
baseVars == <<dispatchVars, matchVars, ctxVars>>
QueryRest == <<baseVars, fileVars, composeVars, cookieVars, rateVars, serveVars, cacheVars, bodyVars, csrfVars, errorVars, tableVars, pairVars>>
FileRest == <<baseVars, queryVars, composeVars, cookieVars, rateVars, serveVars, cacheVars, bodyVars, csrfVars, errorVars, tableVars, pairVars>>
ComposeRest == <<baseVars, queryVars, fileVars, cookieVars, rateVars, serveVars, cacheVars, bodyVars, csrfVars, errorVars, tableVars, pairVars>>
CookieRest == <<baseVars, queryVars, fileVars, composeVars, rateVars, serveVars, cacheVars, bodyVars, csrfVars, errorVars, tableVars, pairVars>>
RateRest == <<baseVars, queryVars, fileVars, composeVars, cookieVars, serveVars, cacheVars, bodyVars, csrfVars, errorVars, tableVars, pairVars>>
ServeRest == <<baseVars, queryVars, fileVars, composeVars, cookieVars, rateVars, cacheVars, bodyVars, csrfVars, errorVars, tableVars, pairVars>>
CacheRest == <<baseVars, queryVars, fileVars, composeVars, cookieVars, rateVars, serveVars, bodyVars, csrfVars, errorVars, tableVars, pairVars>>
BodyRest == <<baseVars, queryVars, fileVars, composeVars, cookieVars, rateVars, serveVars, cacheVars, csrfVars, errorVars, tableVars, pairVars>>
CsrfRest == <<baseVars, queryVars, fileVars, composeVars, cookieVars, rateVars, serveVars, cacheVars, bodyVars, errorVars, tableVars, pairVars>>
ErrorRest == <<baseVars, queryVars, fileVars, composeVars, cookieVars, rateVars, serveVars, cacheVars, bodyVars, csrfVars, tableVars, pairVars>>
TableRest == <<baseVars, queryVars, fileVars, composeVars, cookieVars, rateVars, serveVars, cacheVars, bodyVars, csrfVars, errorVars, pairVars>>
PairRest == <<baseVars, queryVars, fileVars, composeVars, cookieVars, rateVars, serveVars, cacheVars, bodyVars, csrfVars, errorVars, tableVars>>
vars == <<phase, cfgVars, req, ctxParams, runVars, resVars, histVars, otherVars>>

NoReq == [method |-> "", path |-> <<>>, hostOk |-> TRUE]
\* matchRoute not called yet / its return value undefined
NoMatchResult == [route |-> 0, params |-> {}]

\* The requests handled concurrently, each by its own call of Router.handle.
MaxRequests == 2
RequestIds == 1..MaxRequests
NoIncoming == [token |-> FALSE, search |-> FALSE, payload |-> FALSE]
\* no Context yet; 0 is no object (undefined)
NoContext == [params |-> 0, query |-> 0, body |-> 0, isAuthenticated |-> FALSE]
NoStack == [before |-> <<>>, members |-> <<>>, after |-> <<>>, handler |-> ""]
NotRun == [ran |-> FALSE, trace |-> <<>>, ok |-> TRUE, message |-> ""]
MaxServed == 3      \* requests the server receives
ServedIds == 1..MaxServed
NotReceived ==
  [st |-> "none", afterSignal |-> FALSE, dispatched |-> FALSE, counted |-> FALSE,
   status |-> 0, secondWrites |-> 0]
MaxCached == 3      \* requests through the cache
CachedIds == 1..MaxCached
\* `${ctx.req.method}:${ctx.req.url}`, kept in its parts
CacheKeys == {<<"GET", ":", "/a">>, <<"POST", ":", "/a">>}
NoCacheEntry ==
  [present |-> FALSE, timestamp |-> 0, ttl |-> 0, statusCode |-> 0, headers |-> {},
   body |-> <<>>]
NotCached ==
  [st |-> "none", key |-> <<>>, now |-> 0, fromCache |-> FALSE, nexts |-> 0,
   statusCode |-> 0, headers |-> {}, body |-> <<>>, ended |-> FALSE]
NotParsing == [st |-> "none", method |-> "", contentType |-> "", downstream |-> ""]
NothingParsed ==
  [writes |-> <<>>, statusCode |-> 200, nexts |-> 0, nextThrew |-> FALSE,
   promise |-> "none", body |-> "undefined", parse |-> "none", unhandled |-> FALSE,
   dataEvents |-> 0]
MaxCsrf == 2        \* requests through the CSRF middleware
CsrfIds == 1..MaxCsrf
NotChecked ==
  [st |-> "none", method |-> "", cookieToken |-> [t |-> "undefined"],
   headerToken |-> [t |-> "undefined"], nexts |-> 0, statusCode |-> 200, writes |-> <<>>,
   cookieSet |-> [t |-> "none"], csrfToken |-> [t |-> "undefined"],
   generated |-> [t |-> "undefined"]]
MaxFailed == 2      \* requests through errorHandlerMiddleware
FailedIds == 1..MaxFailed
NotHandled ==
  [st |-> "none", env |-> "", failure |-> [thrown |-> "none"], sentBefore |-> FALSE,
   response |-> [status |-> 0, body |-> ""], writes |-> <<>>, logged |-> "",
   rethrown |-> "", fallback |-> FALSE]
LimiterIds == {"first", "second"}
NotThrough == [outcome |-> "", alone |-> ""]
NoLimiter == [created |-> FALSE, maxRequests |-> 0, windowMs |-> 0]
NoEntry == [present |-> FALSE, count |-> 0, resetTime |-> 0]
NoWindow == [open |-> FALSE, from |-> 0, passed |-> 0]
NoRequest ==
  [outcome |-> "", expired |-> FALSE, rejectedBefore |-> FALSE, entryGone |-> FALSE]
ClientIds == {"10.0.0.1", "203.0.113.1", "unknown"}
NoHeader == [t |-> "undefined", xs |-> <<>>]
NoContextView == [params |-> {}, query |-> {}, body |-> 0, isAuthenticated |-> FALSE]

Init ==
  /\ phase = "setup"
  /\ globalMiddlewares = <<>>
  /\ routes = <<>>
  /\ req = NoReq
  /\ ctxParams = {}
  /\ frames = [i \in 1..MaxFrames |-> Free]
  /\ stack = <<>>
  /\ micro = <<>>
  /\ timers = {}
  /\ response = NoResponse
  /\ extraWrites = 0
  /\ startsAt = [c \in 0..MaxRoutes |-> [i \in 1..MaxPos |-> 0]]
  /\ nextsAt = [c \in 0..MaxRoutes |-> [i \in 1..MaxPos |-> 0]]
  /\ orderly = TRUE
  /\ trace = <<>>
  /\ doubled = FALSE
  /\ detached = FALSE
  /\ lateStart = FALSE
  /\ firstFail = NoRes
  /\ catches = FALSE
  /\ handleErr = NoRes
  /\ thrown = ""
  /\ matchResult = NoMatchResult
  /\ stage = [r \in RequestIds |-> "idle"]
  /\ incoming = [r \in RequestIds |-> NoIncoming]
  /\ heap = <<>>
  /\ contexts = [r \in RequestIds |-> NoContext]
  /\ observed = [r \in RequestIds |-> NoContextView]
  /\ queryStage = "idle"
  /\ searchParams = <<>>
  /\ visited = 0
  /\ query = {}
  /\ fileHelper = "none"
  /\ fileInput = <<>>
  /\ fileReads = {}
  /\ fileOutcome = ""
  /\ composeStage = "idle"
  /\ composeInput = NoStack
  /\ inlineRun = NotRun
  /\ composedRun = NotRun
  /\ setCookie = NoHeader
  /\ cookieCalls = <<>>
  /\ limiter = NoLimiter
  /\ clock = 0
  /\ requestCounts = [c \in ClientIds |-> NoEntry]
  /\ seen = 0
  /\ window = [c \in ClientIds |-> NoWindow]
  /\ lastRequest = [c \in ClientIds |-> NoRequest]
  /\ shuttingDown = FALSE
  /\ activeRequests = 0
  /\ exited = ""
  /\ cleanup = ""
  /\ served = [r \in ServedIds |-> NotReceived]
  /\ cacheTtl = 0
  /\ cacheNow = 0
  /\ cacheStore = [k \in CacheKeys |-> NoCacheEntry]
  /\ cached = [r \in CachedIds |-> NotCached]
  /\ parser = NotParsing
  /\ rawBody = <<>>
  /\ size = 0
  /\ exceededLimit = FALSE
  /\ parsed = NothingParsed
  /\ csrfChecked = [r \in CsrfIds |-> NotChecked]
  /\ handled = [r \in FailedIds |-> NotHandled]
  /\ listed = <<>>
  /\ limiters = [l \in LimiterIds |-> NoLimiter]
  /\ ownCounts = [l \in LimiterIds |-> [c \in ClientIds |-> NoEntry]]
  /\ through = [l \in LimiterIds |-> NotThrough]

\* ------------------------------------------------------------ registration
\* Router.use
Use(k) ==
  /\ phase = "setup"
  /\ Len(globalMiddlewares) < MaxGlobal
  /\ globalMiddlewares' = Append(globalMiddlewares, k)
  /\ UNCHANGED <<otherVars, phase, routes, req, ctxParams, runVars, resVars, histVars>>

\* Router.addRoute: the last of the handlers is the handler, the others are
\* the route's middleware.
AddRoute(route) ==
  /\ phase = "setup"
  /\ Len(routes) < MaxRoutes
  /\ routes' = Append(routes, route)
  /\ UNCHANGED <<otherVars, phase, globalMiddlewares, req, ctxParams, runVars, resVars, histVars>>

\* ------------------------------------------------------------- event loop
Top == stack[Len(stack)]
Running(f) == stack # <<>> /\ Top = f /\ frames[f].st = "run"
Idle == stack = <<>> /\ micro = <<>>

FreeIds == { i \in 1..MaxFrames : frames[i].fn = "free" }
NewId == CHOOSE i \in FreeIds : \A j \in FreeIds : i <= j
Live == (1..MaxFrames) \ FreeIds

Pop(s) == SubSeq(s, 1, Len(s) - 1)

\* A frame that stops running hands control back to its caller; a caller
\* that is awaiting suspends in turn, a caller that did not await goes on.
RECURSIVE Unwind(_, _)
Unwind(fr, s) ==
  IF s = <<>> THEN s
  ELSE IF fr[s[Len(s)]].st = "run" THEN s
  ELSE Unwind(fr, Pop(s))

\* ---------------------------------------------------------- runMiddlewares
\* a router that matches the route without running the global middleware
ChainMwsRouteOnly(c) == IF c = 0 THEN <<>> ELSE routes[c].middlewares

\* The middleware list of a chain: Router.globalMiddlewares, route.middlewares.
ChainMws(c) == IF c = 0 THEN globalMiddlewares ELSE routes[c].middlewares

\* await runNext(0): the first position of a chain (positions count from 1 here)
FirstIdx == 1

\* next that skips a position
ChildIdxSkips(index) == index + 2

\* next = () => runNext(index + 1)
ChildIdx(index) == index + 1

\* runNext(index) on chain c (0: the global chain, whose handler is the
\* route-matching step; r > 0: the chain of route r): the middleware at
\* index, or the handler behind the last one.  parent is the frame that
\* awaits the promise returned, 0 when nobody does.
runNext(c, idx, parent) ==
  IF idx <= Len(ChainMws(c))
  THEN [Free EXCEPT !.fn = "mw", !.kind = ChainMws(c)[idx], !.chain = c,
                    !.idx = idx, !.parent = parent, !.st = "run"]
  ELSE [Free EXCEPT !.fn = IF c = 0 THEN "match" ELSE "handler",
                    !.kind = IF c = 0 THEN "core" ELSE "user", !.chain = c,
                    !.idx = idx, !.parent = parent, !.st = "run"]

\* The scripts the function runNext(c, idx) calls may follow.
ScriptsOf(c, idx) ==
  LET fr == runNext(c, idx, 0)
  IN IF fr.kind # "user" THEN {fr.kind}
     ELSE IF fr.fn = "mw" THEN MwScripts ELSE HandlerScripts

\* The next step of a script.
Op(fr) ==
  IF fr.res.k = "err" THEN "rethrow"
  ELSE CASE fr.script = "pass" -> IF fr.nexts = 0 THEN "await" ELSE "return"
         [] fr.script = "slow" ->
              IF ~fr.io THEN "io" ELSE IF fr.nexts = 0 THEN "await" ELSE "return"
         [] fr.script = "stop" -> "return"
         [] fr.script = "respond" -> IF ~fr.wrote THEN "write" ELSE "return"
         [] fr.script = "slowRespond" ->
              IF ~fr.io THEN "io" ELSE IF ~fr.wrote THEN "write" ELSE "return"
         [] fr.script = "throwPre" -> "throw"
         [] fr.script = "throwPost" -> IF fr.nexts = 0 THEN "await" ELSE "throw"
         [] fr.script = "again" -> IF fr.nexts < MaxNext THEN "await" ELSE "return"
         [] fr.script = "forget" -> IF fr.nexts = 0 THEN "forget" ELSE "return"
         [] OTHER -> "none"

\* The promise next() returns is awaited by the middleware that awaits next.
Awaiter(f) == f

HistCall(f, c, j, awaited) ==
  /\ startsAt' = [startsAt EXCEPT ![c][j] = @ + 1]
  /\ nextsAt' = IF frames[f].fn = "mw"
                THEN [nextsAt EXCEPT ![frames[f].chain][frames[f].idx] = @ + 1]
                ELSE nextsAt
  /\ doubled' = (doubled \/ (frames[f].fn = "mw" /\ frames[f].nexts >= 1))
  /\ detached' = (detached \/ ~awaited)
  /\ orderly' = (orderly /\ awaited /\ frames[f].nexts = 0)
  /\ trace' = IF orderly' THEN Append(trace, <<"in", c, j>>) ELSE <<>>
  /\ lateStart' = (lateStart \/ (firstFail.k = "err" /\ firstFail.chain = c /\ j > firstFail.idx))
  /\ UNCHANGED <<firstFail, catches, handleErr>>

\* Frame f calls runNext(c, j) and, when awaited, suspends on its promise.
Call(f, c, j, awaited) ==
  /\ FreeIds # {}
  /\ \E s \in ScriptsOf(c, j) :
       frames' = [frames EXCEPT
         ![f].nexts = @ + 1,
         ![f].res = NoRes,
         ![f].st = IF awaited THEN "await" ELSE "run",
         ![NewId] = [runNext(c, j, IF awaited THEN Awaiter(f) ELSE 0) EXCEPT !.script = s]]
  /\ stack' = Append(stack, NewId)
  /\ micro' = micro
  /\ HistCall(f, c, j, awaited)

HistSettle(f, out, caught, raised) ==
  /\ orderly' = (orderly /\ out.k = "ok" /\ ~(frames[f].fn = "mw" /\ frames[f].nexts = 0))
  /\ trace' = IF orderly' THEN Append(trace, <<"out", frames[f].chain, frames[f].idx>>) ELSE <<>>
  /\ firstFail' = IF raised /\ firstFail.k = "none" THEN out ELSE firstFail
  /\ catches' = (catches \/ caught)
  /\ UNCHANGED <<startsAt, nextsAt, doubled, detached, lateStart, handleErr>>

\* a runNext that swallows the failure of what it awaits
DeliveredOk(out) == OkRes

\* What the frame awaiting a settled promise is resumed with.
Delivered(out) == out

\* The async function of frame f settles with out: the frame awaiting it is
\* queued to resume with out; a rejection nobody awaits is lost.  raised: out
\* is a failure raised here; caught: f caught the failure it was resumed with.
Settle(f, out, caught, raised) ==
  LET p == frames[f].parent
      gone == [frames EXCEPT ![f] = Free]
      fr == IF p # 0 THEN [gone EXCEPT ![p].res = Delivered(out)] ELSE gone
  IN /\ frames' = fr
     /\ micro' = IF p # 0 THEN Append(micro, p) ELSE micro
     /\ stack' = Unwind(fr, Pop(stack))
     /\ HistSettle(f, out, caught, raised)

\* A queued promise reaction runs: the awaiting frame resumes.
RunMicrotask ==
  /\ stack = <<>>
  /\ micro # <<>>
  /\ frames' = [frames EXCEPT ![Head(micro)].st = "run"]
  /\ stack' = <<Head(micro)>>
  /\ micro' = Tail(micro)
  /\ UNCHANGED <<otherVars, phase, cfgVars, req, ctxParams, timers, resVars, histVars>>

\* The I/O a frame awaits completes.
IoDone(f) ==
  /\ Idle
  /\ frames[f].st = "io"
  /\ frames' = [frames EXCEPT ![f].st = "run"]
  /\ stack' = <<f>>
  /\ UNCHANGED <<otherVars, phase, cfgVars, req, ctxParams, micro, timers, resVars, histVars>>

\* ------------------------------------------------------------ Router.handle
\* new URL(req.url, `http://${req.headers.host}`) throws on a host that makes
\* no base URL, before the try block is entered.
UrlParses(r) == r.hostOk

\* Router.handle up to its first await: the query and the context are built
\* and the global chain is started.
Handle(r) ==
  /\ phase = "setup"
  /\ req' = r
  /\ IF UrlParses(r)
     THEN /\ phase' = "pending"
          /\ \E s \in ScriptsOf(0, FirstIdx) :
               frames' = [frames EXCEPT
                 ![1] = [Free EXCEPT !.fn = "handle", !.kind = "core", !.st = "await", !.nexts = 1],
                 ![2] = [runNext(0, FirstIdx, 1) EXCEPT !.script = s]]
          /\ stack' = <<1, 2>>
          /\ HistCall(1, 0, FirstIdx, TRUE)
     ELSE /\ phase' = "rejected"
          /\ UNCHANGED <<frames, stack, histVars>>
  /\ UNCHANGED <<otherVars, cfgVars, ctxParams, micro, timers, resVars>>

\* if (!res.headersSent)
HeadersSent == response # NoResponse

InternalServerError == [status |-> 500, body |-> "Internal Server Error"]
RouteNotFound == [status |-> 404, body |-> "Route Not Found"]

\* a catch block without the test of res.headersSent
CatchWriteAlways(resp) == InternalServerError

\* The response after the catch block of Router.handle (and of serve).
CatchWrite(resp) == IF resp = NoResponse THEN InternalServerError ELSE resp

\* The awaited global chain settles: handle returns, or its catch block runs.
HandleResume(f) ==
  /\ Running(f)
  /\ frames[f].fn = "handle"
  /\ frames[f].res.k # "none"
  /\ phase' = "resolved"
  /\ frames' = [frames EXCEPT ![f] = Free]
  /\ stack' = Pop(stack)
  /\ IF frames[f].res.k = "err"
     THEN /\ handleErr' = frames[f].res
          /\ response' = CatchWrite(response)
     ELSE UNCHANGED <<handleErr, response>>
  /\ UNCHANGED <<otherVars, cfgVars, req, ctxParams, micro, timers, extraWrites, startsAt, nextsAt,
                 orderly, trace, doubled, detached, lateStart, firstFail, catches>>

\* serve: handleRequest(req, res).catch(...)
ServeCatch ==
  /\ phase = "rejected"
  /\ phase' = "served"
  /\ response' = CatchWrite(response)
  /\ UNCHANGED <<otherVars, cfgVars, req, ctxParams, runVars, extraWrites, histVars>>

\* Object.assign(currentCtx.params, match.params)
Assign(target, source) ==
  { t \in target : \A s \in source : s[1] # t[1] } \cup source

FirstMatch == FirstMatchIn(routes, req.method, req.path)

\* The handler of the global chain: the route is matched; without a match the
\* 404 is written, with one the route's own chain is run and awaited.
MatchStart(f) ==
  /\ Running(f)
  /\ frames[f].fn = "match"
  /\ frames[f].nexts = 0
  /\ IF FirstMatch = 0
     THEN /\ IF HeadersSent
             THEN /\ extraWrites' = extraWrites + 1
                  /\ response' = response
                  /\ Settle(f, Err("HeadersSent", 0, frames[f].idx), FALSE, TRUE)
             ELSE /\ response' = RouteNotFound
                  /\ extraWrites' = extraWrites
                  /\ Settle(f, OkRes, FALSE, FALSE)
          /\ UNCHANGED ctxParams
     ELSE /\ ctxParams' = Assign(ctxParams, MatchParams(routes[FirstMatch], req.path))
          /\ Call(f, FirstMatch, FirstIdx, TRUE)
          /\ UNCHANGED resVars
  /\ UNCHANGED <<otherVars, phase, cfgVars, req, timers>>

MatchResume(f) ==
  /\ Running(f)
  /\ frames[f].fn = "match"
  /\ frames[f].res.k # "none"
  /\ Settle(f, frames[f].res, FALSE, FALSE)
  /\ UNCHANGED <<otherVars, phase, cfgVars, req, ctxParams, timers, resVars>>

\* ------------------------------------------- application middleware, handlers
UserDoes(f, op) ==
  /\ Running(f)
  /\ frames[f].kind = "user"
  /\ Op(frames[f]) = op

\* await next()
MwNextAwait(f) ==
  /\ UserDoes(f, "await")
  /\ Call(f, frames[f].chain, ChildIdx(frames[f].idx), TRUE)
  /\ UNCHANGED <<otherVars, phase, cfgVars, req, ctxParams, timers, resVars>>

\* next() without await, as loggerMiddleware calls it
MwNextForget(f) ==
  /\ UserDoes(f, "forget")
  /\ Call(f, frames[f].chain, ChildIdx(frames[f].idx), FALSE)
  /\ UNCHANGED <<otherVars, phase, cfgVars, req, ctxParams, timers, resVars>>

\* await of some I/O
UserSuspend(f) ==
  /\ UserDoes(f, "io")
  /\ frames' = [frames EXCEPT ![f].st = "io", ![f].io = TRUE]
  /\ stack' = Unwind(frames', Pop(stack))
  /\ UNCHANGED <<otherVars, phase, cfgVars, req, ctxParams, micro, timers, resVars, histVars>>

\* ctx.json(...) and the like: setHeader throws once the headers are sent.
UserWrite(f) ==
  /\ UserDoes(f, "write")
  /\ IF HeadersSent
     THEN /\ extraWrites' = extraWrites + 1
          /\ response' = response
          /\ Settle(f, Err("HeadersSent", frames[f].chain, frames[f].idx), FALSE, TRUE)
     ELSE /\ response' = [status |-> 200, body |-> "ok"]
          /\ extraWrites' = extraWrites
          /\ frames' = [frames EXCEPT ![f].wrote = TRUE]
          /\ UNCHANGED <<stack, micro, histVars>>
  /\ UNCHANGED <<otherVars, phase, cfgVars, req, ctxParams, timers>>

UserThrow(f) ==
  /\ UserDoes(f, "throw")
  /\ Settle(f, Err("Error", frames[f].chain, frames[f].idx), FALSE, TRUE)
  /\ UNCHANGED <<otherVars, phase, cfgVars, req, ctxParams, timers, resVars>>

\* an executor that takes a middleware returning without next for a failure
ReturnedNeedsNext(f) ==
  IF frames[f].fn = "mw" /\ frames[f].nexts = 0
  THEN Err("NextNotCalled", frames[f].chain, frames[f].idx)
  ELSE OkRes

\* What a middleware or handler that returns settles with.
Returned(f) == OkRes

UserReturn(f) ==
  /\ UserDoes(f, "return")
  /\ Settle(f, Returned(f), FALSE, FALSE)
  /\ UNCHANGED <<otherVars, phase, cfgVars, req, ctxParams, timers, resVars>>

\* The awaited next() rejected: the rejection leaves the middleware as it came.
UserRethrow(f) ==
  /\ UserDoes(f, "rethrow")
  /\ Settle(f, frames[f].res, FALSE, FALSE)
  /\ UNCHANGED <<otherVars, phase, cfgVars, req, ctxParams, timers, resVars>>

\* --------------------------------------------------- errorHandlerMiddleware
ErrorHandlerStart(f) ==
  /\ Running(f)
  /\ frames[f].kind = "errorHandler"
  /\ frames[f].nexts = 0
  /\ Call(f, frames[f].chain, ChildIdx(frames[f].idx), TRUE)
  /\ UNCHANGED <<otherVars, phase, cfgVars, req, ctxParams, timers, resVars>>

\* handleError: the status of an AppError, 500 for any other failure.
ErrorResponse(e) ==
  IF e.code = "Timeout"
  THEN [status |-> 408, body |-> "Request timeout"]
  ELSE [status |-> 500, body |-> "Internal Server Error (json)"]

ErrorHandlerResume(f) ==
  /\ Running(f)
  /\ frames[f].kind = "errorHandler"
  /\ frames[f].res.k # "none"
  /\ response' = IF frames[f].res.k = "err" /\ ~HeadersSent
                 THEN ErrorResponse(frames[f].res) ELSE response
  /\ Settle(f, OkRes, frames[f].res.k = "err", FALSE)
  /\ UNCHANGED <<otherVars, phase, cfgVars, req, ctxParams, timers, extraWrites>>

\* -------------------------------------------------- createTimeoutMiddleware
\* a guard whose timer rejects with an ordinary failure
TimeoutPlainError(f) == Err("Error", frames[f].chain, frames[f].idx)

\* new AppError(`Request timeout after ${timeoutMs}ms`, 408, "REQUEST_TIMEOUT")
TimeoutError(f) == Err("Timeout", frames[f].chain, frames[f].idx)

\* a finally block that leaves the timer armed
clearTimeoutNever(ts, f) == ts

\* clearTimeout(timeoutId)
clearTimeout(ts, f) == ts \ {f}

\* setTimeout is armed, next() is called and the race is awaited.
TimeoutStart(f) ==
  /\ Running(f)
  /\ frames[f].kind = "timeout"
  /\ frames[f].nexts = 0
  /\ timers' = timers \cup {f}
  /\ Call(f, frames[f].chain, ChildIdx(frames[f].idx), TRUE)
  /\ UNCHANGED <<otherVars, phase, cfgVars, req, ctxParams, resVars>>

\* The timer expires first: the race rejects; the chain behind it runs on,
\* its outcome no longer awaited.
TimerFire(f) ==
  /\ Idle
  /\ f \in timers
  /\ frames[f].st = "await"
  /\ frames' = [i \in 1..MaxFrames |->
       IF i = f THEN [frames[f] EXCEPT !.st = "run", !.res = TimeoutError(f)]
       ELSE IF frames[i].parent = f THEN [frames[i] EXCEPT !.parent = 0]
       ELSE frames[i]]
  /\ stack' = <<f>>
  /\ detached' = TRUE
  /\ orderly' = FALSE
  /\ trace' = <<>>
  /\ firstFail' = IF firstFail.k = "none" THEN TimeoutError(f) ELSE firstFail
  /\ UNCHANGED <<otherVars, phase, cfgVars, req, ctxParams, micro, timers, resVars, startsAt, nextsAt,
                 doubled, lateStart, catches, handleErr>>

\* finally { clearTimeout(timeoutId) }: the outcome of the race is passed on.
TimeoutResume(f) ==
  /\ Running(f)
  /\ frames[f].kind = "timeout"
  /\ frames[f].res.k # "none"
  /\ timers' = clearTimeout(timers, f)
  /\ Settle(f, frames[f].res, FALSE, FALSE)
  /\ UNCHANGED <<otherVars, phase, cfgVars, req, ctxParams, resVars>>

\* ----------------------------------------------------------- specification
Next ==
  \/ \E k \in MwKinds : Use(k)
  \/ \E route \in RouteChoices : AddRoute(route)
  \/ \E r \in Requests : Handle(r)
  \/ ServeCatch
  \/ RunMicrotask
  \/ \E f \in 1..MaxFrames :
       \/ IoDone(f)
       \/ HandleResume(f)
       \/ MatchStart(f)
       \/ MatchResume(f)
       \/ MwNextAwait(f)
       \/ MwNextForget(f)
       \/ UserSuspend(f)
       \/ UserWrite(f)
       \/ UserThrow(f)
       \/ UserReturn(f)
       \/ UserRethrow(f)
       \/ ErrorHandlerStart(f)
       \/ ErrorHandlerResume(f)
       \/ TimeoutStart(f)
       \/ TimerFire(f)
       \/ TimeoutResume(f)

Spec == Init /\ [][Next]_vars

\* ------------------------------------------------------------------ claims
NumGlobal == Len(globalMiddlewares)
Received == phase # "setup" /\ req.hostOk
\* handle has settled and nothing it started is still running
Quiescent == phase \in {"resolved", "served"} /\ Live = {}

\* The routes that match the request, stated without the scan of matchRoute.
Matching ==
  { r \in 1..Len(routes) :
      routes[r].method = req.method /\ SegsMatch(routes[r].path, req.path) }
NoRouteMatches == Matching = {}
IsFirstMatching(r) == r \in Matching /\ \A q \in Matching : r <= q
HandlerPos(r) == Len(routes[r].middlewares) + 1
HandlerStarts(r) == startsAt[r][HandlerPos(r)]

Ins(c, n) == [i \in 1..n |-> <<"in", c, i>>]
Outs(c, n) == [i \in 1..n |-> <<"out", c, n + 1 - i>>]
\* Enter the global chain in list order, then the matched route's chain, then
\* the handler; leave in the reverse order.
ExpectedTrace ==
  IF NoRouteMatches
  THEN Ins(0, NumGlobal + 1) \o Outs(0, NumGlobal + 1)
  ELSE LET m == CHOOSE r \in Matching : IsFirstMatching(r)
       IN Ins(0, NumGlobal + 1) \o Ins(m, HandlerPos(m))
            \o Outs(m, HandlerPos(m)) \o Outs(0, NumGlobal + 1)
IsPrefix(a, b) == Len(a) <= Len(b) /\ a = SubSeq(b, 1, Len(a))

\* C1: when every middleware awaits next exactly once, the chain is entered
\* in list order down to the handler and left in the reverse order: every
\* call of next returns only after all that is behind it has returned.
C1_OnionOrder ==
  (Received /\ orderly) =>
    /\ IsPrefix(trace, ExpectedTrace)
    /\ (Quiescent => trace = ExpectedTrace)

C1_Witness ==
  /\ Quiescent
  /\ orderly
  /\ NumGlobal = MaxGlobal
  /\ ~NoRouteMatches
  /\ Len(trace) = 2 * (MaxGlobal + 1 + MaxRouteMw + 1)
  /\ trace = ExpectedTrace

\* C2: a second call of next in one middleware invocation is rejected: no
\* invocation runs what is behind it twice, so no position of a chain is
\* started twice for the request.
C2_SecondNextRejected ==
  /\ ~doubled
  /\ \A c \in 0..MaxRoutes, i \in 1..MaxPos : startsAt[c][i] <= 1

\* C3: once handle has settled and nothing is running any more, a response
\* has been written.
C3_AlwaysAnswered == Quiescent => response # NoResponse

\* C4: no write is attempted after the response has been written.
C4_WrittenOnce == extraWrites = 0

\* C5: behind a middleware that never called next nothing of its chain was
\* started, behind a global chain that did not reach route matching no route
\* chain was started, and a failure reaches handle only if one was raised.
C5_ShortCircuit ==
  /\ \A c \in 0..Len(routes) : \A i \in 1..Len(ChainMws(c)) :
       nextsAt[c][i] = 0 => \A j \in (i + 1)..MaxPos : startsAt[c][j] = 0
  /\ startsAt[0][NumGlobal + 1] = 0 =>
       \A r \in 1..MaxRoutes, j \in 1..MaxPos : startsAt[r][j] = 0
  /\ handleErr.k = "err" => firstFail.k = "err"

C5_Witness ==
  /\ Quiescent
  /\ NumGlobal = 2
  /\ startsAt[0][1] = 1
  /\ nextsAt[0][1] = 0
  /\ startsAt[0][2] = 0
  /\ handleErr = NoRes
  /\ firstFail = NoRes

\* C6 as claimed: after the first failure, raised at position i, nothing
\* behind i starts, and the failure reaches the caller of the chain unless a
\* middleware caught it.  (Runs in which a middleware called next a second
\* time, the matter of C2, are left out of the first part.)
C6_AbortsAndDelivers ==
  /\ lateStart => doubled
  /\ (phase = "resolved" /\ firstFail.k = "err" /\ ~catches) => handleErr = firstFail

\* C6: as long as every call of next was awaited to its end (no next()
\* without await, no timeout guard that gave up waiting), after the first
\* failure, raised at position i, nothing behind i starts unless a middleware
\* calls next again, and the failure reaches the caller of the chain unless
\* a middleware caught it.
C6_AbortsWhenAwaited ==
  /\ lateStart => (doubled \/ detached)
  /\ (phase = "resolved" /\ firstFail.k = "err" /\ ~catches /\ ~detached) =>
       handleErr = firstFail

C6_Witness ==
  /\ phase = "resolved"
  /\ firstFail.k = "err"
  /\ firstFail.chain >= 1
  /\ ~catches
  /\ ~detached
  /\ ~doubled
  /\ handleErr = firstFail

\* The catch block of handle, or that of serve, is about to run.
Catching ==
  \/ phase = "rejected"
  \/ \E f \in Live : Running(f) /\ frames[f].fn = "handle" /\ frames[f].res.k = "err"

\* C7: the catch block of handle writes 500 "Internal Server Error" when no
\* response has been written, and writes nothing when one has.
C7_CatchWritesOnce ==
  [][Catching =>
       /\ response' = (IF response = NoResponse
                       THEN [status |-> 500, body |-> "Internal Server Error"]
                       ELSE response)
       /\ extraWrites' = extraWrites]_vars

C7_Witness ==
  /\ phase = "resolved"
  /\ handleErr.k = "err"
  /\ handleErr.chain >= 1
  /\ response = [status |-> 500, body |-> "Internal Server Error"]
  /\ extraWrites = 0

\* The route-matching step is about to run for a request no route matches.
MatchingNone ==
  /\ NoRouteMatches
  /\ \E f \in Live : Running(f) /\ frames[f].fn = "match" /\ frames[f].nexts = 0

\* C8: for a request no route matches, route matching writes 404 "Route Not
\* Found" (the response, unless a global middleware wrote one before) and no
\* route middleware and no handler is ever started.
C8_NotFound ==
  /\ [](NoRouteMatches => \A r \in 1..MaxRoutes, j \in 1..MaxPos : startsAt[r][j] = 0)
  /\ [][MatchingNone =>
          response' = (IF response = NoResponse
                       THEN [status |-> 404, body |-> "Route Not Found"]
                       ELSE response)]_vars

C8_Witness ==
  /\ Quiescent
  /\ NoRouteMatches
  /\ req.hostOk
  /\ Len(routes) = MaxRoutes
  /\ response = [status |-> 404, body |-> "Route Not Found"]

\* C9: the global chain is started for every request, matching or not; a
\* global middleware starts only once the one before it has called next;
\* a route's chain starts only for the first matching route, after route
\* matching, which runs after every global middleware has called next.
C9_GlobalThenRoute ==
  Received =>
    /\ startsAt[0][1] >= 1
    /\ \A i \in 2..(NumGlobal + 1) :
         startsAt[0][i] > 0 => (startsAt[0][i - 1] > 0 /\ nextsAt[0][i - 1] > 0)
    /\ \A r \in 1..MaxRoutes, j \in 1..MaxPos :
         startsAt[r][j] > 0 =>
           /\ IsFirstMatching(r)
           /\ startsAt[0][NumGlobal + 1] > 0
           /\ \A i \in 1..NumGlobal : nextsAt[0][i] > 0

C9_Witness ==
  /\ Quiescent
  /\ NoRouteMatches
  /\ req.hostOk
  /\ NumGlobal = MaxGlobal
  /\ \A i \in 1..(NumGlobal + 1) : startsAt[0][i] = 1

\* C10: at most one handler is called for a request, at most once, and it is
\* the handler of the first route that matches.
C10_OneHandler ==
  /\ \A r \in 1..Len(routes) : HandlerStarts(r) > 0 => IsFirstMatching(r)
  /\ \A r \in 1..Len(routes) : HandlerStarts(r) <= 1

\* ===========================================================================
\* Route patterns and paths character by character: Router.compileRoute,
\* the regular expression it builds, Router.matchRoute and Router.addRoute.
\* ===========================================================================

\* ------------------------------------------------------------- characters
\* A string is the sequence of its characters.
Digits == <<"0", "1", "2", "3", "4", "5", "6", "7", "8", "9">>
Uppers ==
  <<"A", "B", "C", "D", "E", "F", "G", "H", "I", "J", "K", "L", "M", 
   "N", "O", "P", "Q", "R", "S", "T", "U", "V", "W", "X", "Y", "Z">>
Lowers ==
  <<"a", "b", "c", "d", "e", "f", "g", "h", "i", "j", "k", "l", "m", 
   "n", "o", "p", "q", "r", "s", "t", "u", "v", "w", "x", "y", "z">>
\* the characters in code-point order, as far as ranges of classes need it
CodeOrder == Digits \o Uppers \o <<"_">> \o Lowers

Range(seq) == { seq[i] : i \in 1..Len(seq) }
IsDigit(c) == c \in Range(Digits)
IsWord(c) == c \in Range(CodeOrder)
CodeOf(c) == IF \E i \in 1..Len(CodeOrder) : CodeOrder[i] = c
             THEN CHOOSE i \in 1..Len(CodeOrder) : CodeOrder[i] = c ELSE 0
\* SyntaxCharacter of the regular expression grammar
SyntaxChars == {"^", "$", "\\", ".", "*", "+", "?", "(", ")", "[", "]", "{", "}", "|"}

Drop(s, n) == SubSeq(s, n + 1, Len(s))
StartsWith(s, p) == Len(p) <= Len(s) /\ SubSeq(s, 1, Len(p)) = p

\* ------------------------------------------------- new RegExp(source): parse
\* Nodes: [t |-> "lit", c], [t |-> "digit"], [t |-> "word"], [t |-> "dot"],
\* [t |-> "class", neg, items], [t |-> "bol"], [t |-> "eol"],
\* [t |-> "seq", xs], [t |-> "alt", xs], [t |-> "rep", x, min, max] (max -1:
\* unbounded), [t |-> "grp", name, x].
Bad == [ok |-> FALSE, node |-> [t |-> "none"], rest |-> <<>>]
Good(n, r) == [ok |-> TRUE, node |-> n, rest |-> r]

\* decimal digits at the start of s: [n, rest], n = -1 when there is none
RECURSIVE ParseIntAcc(_, _, _)
ParseIntAcc(s, acc, any) ==
  IF s # <<>> /\ IsDigit(Head(s))
  THEN ParseIntAcc(Tail(s), acc * 10 + (CodeOf(Head(s)) - 1), TRUE)
  ELSE [n |-> IF any THEN acc ELSE -1, rest |-> s]
ParseInt(s) == ParseIntAcc(s, 0, FALSE)

\* a quantifier at the start of s: [q, min, max, rest]; q FALSE when s
\* starts with no quantifier (a brace that makes none is a literal)
ParseQuant(s) ==
  LET none == [q |-> FALSE, min |-> 1, max |-> 1, rest |-> s]
  IN IF s = <<>> THEN none
     ELSE CASE Head(s) = "*" -> [q |-> TRUE, min |-> 0, max |-> -1, rest |-> Tail(s)]
            [] Head(s) = "+" -> [q |-> TRUE, min |-> 1, max |-> -1, rest |-> Tail(s)]
            [] Head(s) = "?" -> [q |-> TRUE, min |-> 0, max |-> 1, rest |-> Tail(s)]
            [] Head(s) = "{" ->
                 LET a == ParseInt(Tail(s))
                 IN IF a.n < 0 \/ a.rest = <<>> THEN none
                    ELSE IF Head(a.rest) = "}"
                    THEN [q |-> TRUE, min |-> a.n, max |-> a.n, rest |-> Tail(a.rest)]
                    ELSE IF Head(a.rest) # "," THEN none
                    ELSE LET b == ParseInt(Tail(a.rest))
                         IN IF b.rest = <<>> \/ Head(b.rest) # "}" THEN none
                            ELSE [q |-> TRUE, min |-> a.n, max |-> b.n, rest |-> Tail(b.rest)]
            [] OTHER -> none

\* the items of a character class up to its "]": [ok, items, rest]
RECURSIVE ParseClassItems(_, _)
ParseClassItems(s, items) ==
  IF s = <<>> THEN [ok |-> FALSE, items |-> items, rest |-> s]
  ELSE IF Head(s) = "]" THEN [ok |-> TRUE, items |-> items, rest |-> Tail(s)]
  ELSE IF Head(s) = "\\"
  THEN IF Len(s) < 2 THEN [ok |-> FALSE, items |-> items, rest |-> s]
       ELSE IF s[2] = "d"
       THEN ParseClassItems(Drop(s, 2), Append(items, [t |-> "digit"]))
       ELSE ParseClassItems(Drop(s, 2), Append(items, [t |-> "lit", c |-> s[2]]))
  ELSE IF Len(s) >= 3 /\ s[2] = "-" /\ s[3] # "]"
  THEN IF CodeOf(Head(s)) > CodeOf(s[3])
       THEN [ok |-> FALSE, items |-> items, rest |-> s]
       ELSE ParseClassItems(Drop(s, 3), Append(items, [t |-> "range", lo |-> Head(s), hi |-> s[3]]))
  ELSE ParseClassItems(Tail(s), Append(items, [t |-> "lit", c |-> Head(s)]))

\* the name of a group up to its ">": [ok, name, rest]
RECURSIVE ParseName(_, _)
ParseName(s, name) ==
  IF s = <<>> THEN [ok |-> FALSE, name |-> name, rest |-> s]
  ELSE IF Head(s) = ">" THEN [ok |-> name # <<>>, name |-> name, rest |-> Tail(s)]
  ELSE IF IsWord(Head(s)) /\ ~(name = <<>> /\ IsDigit(Head(s)))
  THEN ParseName(Tail(s), Append(name, Head(s)))
  ELSE [ok |-> FALSE, name |-> name, rest |-> s]

RECURSIVE ParseDisjunction(_), ParseAlternatives(_, _), ParseAlternative(_, _), ParseTerm(_),
          ParseAtom(_), ParseGroup(_)

\* a character class whose items were read as c
ClassAtom(neg, c) ==
  IF c.ok THEN Good([t |-> "class", neg |-> neg, items |-> c.items], c.rest)
  ELSE Bad                                           \* unterminated character class

\* what opens a group: "(?<name>", "(?:" or "(": [ok, name, rest]
GroupHead(s) ==
  IF StartsWith(s, <<"(", "?", "<">>) THEN ParseName(Drop(s, 3), <<>>)
  ELSE [ok |-> TRUE, name |-> <<>>,
        rest |-> Drop(s, IF StartsWith(s, <<"(", "?", ":">>) THEN 3 ELSE 1)]

\* a group whose head was read as nm and whose body was read as d
GroupAtom(nm, d) ==
  IF ~d.ok \/ d.rest = <<>> \/ Head(d.rest) # ")" THEN Bad   \* invalid or unterminated group
  ELSE Good([t |-> "grp", name |-> nm.name, x |-> d.node], Tail(d.rest))

ParseGroup(nm) == GroupAtom(nm, IF nm.ok THEN ParseDisjunction(nm.rest) ELSE Bad)

\* Atom (or assertion): one node, without its quantifier
ParseAtom(s) ==
  CASE Head(s) = "^" -> Good([t |-> "bol"], Tail(s))
    [] Head(s) = "$" -> Good([t |-> "eol"], Tail(s))
    [] Head(s) = "." -> Good([t |-> "dot"], Tail(s))
    [] Head(s) \in {"*", "+", "?"} -> Bad            \* nothing to repeat
    [] Head(s) = "{" -> IF ParseQuant(s).q THEN Bad ELSE Good([t |-> "lit", c |-> "{"], Tail(s))
    [] Head(s) = "\\" ->
         IF Len(s) < 2 THEN Bad                      \* \ at end of pattern
         ELSE IF s[2] = "d" THEN Good([t |-> "digit"], Drop(s, 2))
         ELSE IF s[2] = "w" THEN Good([t |-> "word"], Drop(s, 2))
         ELSE Good([t |-> "lit", c |-> s[2]], Drop(s, 2))
    [] Head(s) = "[" ->
         IF Len(s) >= 2 /\ s[2] = "^"
         THEN ClassAtom(TRUE, ParseClassItems(Drop(s, 2), <<>>))
         ELSE ClassAtom(FALSE, ParseClassItems(Drop(s, 1), <<>>))
    [] Head(s) = "(" -> ParseGroup(GroupHead(s))
    [] OTHER -> Good([t |-> "lit", c |-> Head(s)], Tail(s))

\* the atom a with the quantifier q read behind it
Quantified(a, q) ==
  IF ~q.q THEN a
  ELSE IF a.node.t \in {"bol", "eol"} THEN Bad
  ELSE IF q.max # -1 /\ q.max < q.min THEN Bad       \* numbers out of order
  ELSE IF q.rest # <<>> /\ Head(q.rest) \in {"*", "+"} THEN Bad  \* nothing to repeat
  ELSE Good([t |-> "rep", x |-> a.node, min |-> q.min, max |-> q.max], q.rest)

QuantifiedAtom(a) == IF ~a.ok THEN Bad ELSE Quantified(a, ParseQuant(a.rest))

\* Term: an atom and the quantifier behind it
ParseTerm(s) == QuantifiedAtom(ParseAtom(s))

\* Alternative: terms up to "|", ")" or the end
AfterTerm(tm, xs) ==
  IF tm.ok THEN ParseAlternative(tm.rest, Append(xs, tm.node)) ELSE Bad

ParseAlternative(s, xs) ==
  IF s = <<>> \/ Head(s) \in {"|", ")"} THEN Good([t |-> "seq", xs |-> xs], s)
  ELSE AfterTerm(ParseTerm(s), xs)

AfterAlternative(a, alts) ==
  IF ~a.ok THEN Bad
  ELSE IF a.rest # <<>> /\ Head(a.rest) = "|"
  THEN ParseAlternatives(Tail(a.rest), Append(alts, a.node))
  ELSE Good([t |-> "alt", xs |-> Append(alts, a.node)], a.rest)

ParseAlternatives(s, alts) == AfterAlternative(ParseAlternative(s, <<>>), alts)

ParseDisjunction(s) == ParseAlternatives(s, <<>>)

\* the names of the groups of a node, in source order
RECURSIVE GroupNames(_), GroupNamesOf(_)
GroupNamesOf(xs) == IF xs = <<>> THEN <<>> ELSE GroupNames(Head(xs)) \o GroupNamesOf(Tail(xs))
GroupNames(n) ==
  CASE n.t \in {"seq", "alt"} -> GroupNamesOf(n.xs)
    [] n.t = "rep" -> GroupNames(n.x)
    [] n.t = "grp" -> (IF n.name = <<>> THEN <<>> ELSE <<n.name>>) \o GroupNames(n.x)
    [] OTHER -> <<>>
NoDuplicates(seq) == \A i, j \in 1..Len(seq) : seq[i] = seq[j] => i = j

\* new RegExp(source): the pattern, or a SyntaxError
SyntaxError == [ok |-> FALSE, node |-> [t |-> "none"]]
RegExpOf(d) ==
  IF d.ok /\ d.rest = <<>> /\ NoDuplicates(GroupNames(d.node))
  THEN [ok |-> TRUE, node |-> d.node]
  ELSE SyntaxError
NewRegExp(source) == RegExpOf(ParseDisjunction(source))

\* ------------------------------------------------------- RegExp.prototype.exec
InItem(c, it) ==
  CASE it.t = "lit" -> c = it.c
    [] it.t = "digit" -> IsDigit(c)
    [] OTHER -> CodeOf(c) # 0 /\ CodeOf(it.lo) <= CodeOf(c) /\ CodeOf(c) <= CodeOf(it.hi)

\* The ways node n matches s from position i, best first: [pos, caps], pos
\* the position behind the match, caps the named groups that took part.
RECURSIVE MatchNode(_, _, _, _), MatchSeq(_, _, _, _), MatchAlt(_, _, _, _),
          MatchRep(_, _, _, _, _, _), ThenSeq(_, _, _), ThenRep(_, _, _, _, _, _), ThenCap(_, _, _, _)

MatchNode(n, s, i, caps) ==
  LET one(ok) == IF i <= Len(s) /\ ok THEN <<[pos |-> i + 1, caps |-> caps]>> ELSE <<>>
  IN CASE n.t = "lit" -> one(i <= Len(s) /\ s[i] = n.c)
       [] n.t = "digit" -> one(i <= Len(s) /\ IsDigit(s[i]))
       [] n.t = "word" -> one(i <= Len(s) /\ IsWord(s[i]))
       [] n.t = "dot" -> one(TRUE)
       [] n.t = "class" ->
            one(i <= Len(s) /\ ((\E k \in 1..Len(n.items) : InItem(s[i], n.items[k])) # n.neg))
       [] n.t = "bol" -> IF i = 1 THEN <<[pos |-> i, caps |-> caps]>> ELSE <<>>
       [] n.t = "eol" -> IF i = Len(s) + 1 THEN <<[pos |-> i, caps |-> caps]>> ELSE <<>>
       [] n.t = "seq" -> MatchSeq(n.xs, s, i, caps)
       [] n.t = "alt" -> MatchAlt(n.xs, s, i, caps)
       [] n.t = "rep" -> MatchRep(n.x, n.min, n.max, s, i, caps)
       [] n.t = "grp" -> ThenCap(MatchNode(n.x, s, i, caps), n.name, s, i)
       [] OTHER -> <<>>

ThenSeq(rs, xs, s) ==
  IF rs = <<>> THEN <<>>
  ELSE MatchSeq(xs, s, Head(rs).pos, Head(rs).caps) \o ThenSeq(Tail(rs), xs, s)

MatchSeq(xs, s, i, caps) ==
  IF xs = <<>> THEN <<[pos |-> i, caps |-> caps]>>
  ELSE ThenSeq(MatchNode(Head(xs), s, i, caps), Tail(xs), s)

MatchAlt(xs, s, i, caps) ==
  IF xs = <<>> THEN <<>>
  ELSE MatchNode(Head(xs), s, i, caps) \o MatchAlt(Tail(xs), s, i, caps)

\* after one more iteration that ended at each of rs (an empty iteration
\* ends the repetition)
ThenRep(rs, x, min, max, s, i) ==
  IF rs = <<>> THEN <<>>
  ELSE (IF Head(rs).pos = i
        THEN (IF min > 0 THEN <<Head(rs)>> ELSE <<>>)
        ELSE MatchRep(x, IF min > 0 THEN min - 1 ELSE 0, IF max = -1 THEN -1 ELSE max - 1,
                      s, Head(rs).pos, Head(rs).caps))
       \o ThenRep(Tail(rs), x, min, max, s, i)

\* greedy: one more iteration is tried before stopping
MatchRep(x, min, max, s, i, caps) ==
  (IF max = 0 THEN <<>> ELSE ThenRep(MatchNode(x, s, i, caps), x, min, max, s, i))
  \o (IF min = 0 THEN <<[pos |-> i, caps |-> caps]>> ELSE <<>>)

ThenCap(rs, name, s, i) ==
  [k \in 1..Len(rs) |->
     IF name = <<>> THEN rs[k]
     ELSE [rs[k] EXCEPT !.caps = { c \in @ : c[1] # name } \cup {<<name, SubSeq(s, i, rs[k].pos - 1)>>}]]

\* regex.exec(s): the first match from the leftmost position that has one;
\* [found, index, groups]
NoMatch == [found |-> FALSE, index |-> 0, groups |-> {}]
RECURSIVE ExecFrom(_, _, _)
ExecAt(re, s, i, rs) ==
  IF rs # <<>> THEN [found |-> TRUE, index |-> i, groups |-> Head(rs).caps]
  ELSE ExecFrom(re, s, i + 1)
ExecFrom(re, s, i) ==
  IF i > Len(s) + 1 THEN NoMatch ELSE ExecAt(re, s, i, MatchNode(re.node, s, i, {}))
Exec(re, s) == ExecFrom(re, s, 1)

\* ------------------------------------------------------ Router.compileRoute
\* String.prototype.split("/")
RECURSIVE SplitAcc(_, _, _)
SplitAcc(s, cur, acc) ==
  IF s = <<>> THEN Append(acc, cur)
  ELSE IF Head(s) = "/" THEN SplitAcc(Tail(s), <<>>, Append(acc, cur))
  ELSE SplitAcc(Tail(s), Append(cur, Head(s)), acc)
Split(s) == SplitAcc(s, <<>>, <<>>)

\* Array.prototype.join("/")
RECURSIVE Join(_)
Join(parts) ==
  IF parts = <<>> THEN <<>>
  ELSE IF Len(parts) = 1 THEN Head(parts)
  ELSE Head(parts) \o <<"/">> \o Join(Tail(parts))

\* path.split("/").filter((seg, idx) => !(idx === 0 && seg === ""))
segments(path) ==
  LET all == Split(path) IN IF Head(all) = <<>> THEN Tail(all) ELSE all

\* const ESCAPE = /[.*+?^${}()|[\]\\]/g
ESCAPE == {".", "*", "+", "?", "^", "$", "{", "}", "(", ")", "|", "[", "]", "\\"}

\* literal text copied into the pattern as it stands
Unescaped(s) == s

\* str.replace(ESCAPE, "\\$&")
RECURSIVE Escaped(_)
Escaped(s) ==
  IF s = <<>> THEN <<>>
  ELSE (IF Head(s) \in ESCAPE THEN <<"\\", Head(s)>> ELSE <<Head(s)>>) \o Escaped(Tail(s))

RECURSIVE NameEnd(_, _)
NameEnd(segment, e) ==
  IF e < Len(segment) /\ IsWord(segment[e + 1]) THEN NameEnd(segment, e + 1) ELSE e

\* paramRegex = /:([a-zA-Z_][a-zA-Z0-9_]*)(?:\(([^)]+)\))?/g, exec from
\* position from: [found, index, name, constraint, end]; constraint <<>> when
\* the optional group took no part (no "(", no ")" behind it, or "()")
paramRegexExec(segment, from) ==
  LET starts == { i \in from..(Len(segment) - 1) :
                    segment[i] = ":" /\ IsWord(segment[i + 1]) /\ ~IsDigit(segment[i + 1]) }
  IN IF starts = {}
     THEN [found |-> FALSE, index |-> 0, name |-> <<>>, constraint |-> <<>>, end |-> 0]
     ELSE LET start == CHOOSE i \in starts : \A j \in starts : i <= j
              e == NameEnd(segment, start + 1)
              closes == { j \in (e + 2)..Len(segment) : segment[j] = ")" }
              close == IF e < Len(segment) /\ segment[e + 1] = "(" /\ closes # {}
                       THEN CHOOSE j \in closes : \A k \in closes : j <= k ELSE 0
              has == close > e + 2
          IN [found |-> TRUE, index |-> start, name |-> SubSeq(segment, start + 1, e),
              constraint |-> IF has THEN SubSeq(segment, e + 2, close - 1) ELSE <<>>,
              end |-> IF has THEN close ELSE e]

\* a default sub-pattern that lets the value run over separators
DefaultAnything == <<".", "+">>

\* a parameter without constraint: [^/]+
DefaultConstraint == <<"[", "^", "/", "]", "+">>

\* a named group that drops the constraint of the token
NamedGroupUnconstrained(name, constraint) ==
  <<"(", "?", "<">> \o name \o <<">">> \o DefaultConstraint \o <<")">>

\* `(?<${name}>${constraint})` or `(?<${name}>[^/]+)`
NamedGroup(name, constraint) ==
  <<"(", "?", "<">> \o name \o <<">">>
    \o (IF constraint # <<>> THEN constraint ELSE DefaultConstraint) \o <<")">>

\* a wildcard group that stops at the first separator
WildcardOneSegment ==
  <<"(", "?", "<", "w", "i", "l", "d", "c", "a", "r", "d", ">", "[", "^", "/", "]", "*", ")">>

\* `(?<wildcard>.*)`
WildcardGroup == <<"(", "?", "<", "w", "i", "l", "d", "c", "a", "r", "d", ">", ".", "*", ")">>

WildcardName == <<"w", "i", "l", "d", "c", "a", "r", "d">>

\* the while loop over paramRegex.exec(segment) and the two ifs behind it:
\* [segPattern, names]
RECURSIVE ScanSegment(_, _, _, _)

\* the segment is exhausted: its pattern is what was collected and the
\* literal tail, the escaped segment when that is empty
ScanEnd(segment, whole, names) ==
  [segPattern |-> IF whole = <<>> THEN Escaped(segment) ELSE whole, names |-> names]

\* one turn of the loop, m being what paramRegex.exec returned
ScanMatch(segment, from, segPattern, names, m) ==
  IF m.found
  THEN ScanSegment(segment, m.end + 1,
                   segPattern \o Escaped(SubSeq(segment, from, m.index - 1))
                              \o NamedGroup(m.name, m.constraint),
                   Append(names, m.name))
  ELSE ScanEnd(segment, segPattern \o Escaped(SubSeq(segment, from, Len(segment))), names)

ScanSegment(segment, from, segPattern, names) ==
  ScanMatch(segment, from, segPattern, names, paramRegexExec(segment, from))

\* segments.map((segment, idx) => ...): [parts, paramNames, hasWildcard]
NoSegments == [parts |-> <<>>, paramNames |-> <<>>, hasWildcard |-> FALSE]
WithWildcard(acc) ==
  [parts |-> Append(acc.parts, WildcardGroup),
   paramNames |-> Append(acc.paramNames, WildcardName),
   hasWildcard |-> TRUE]
WithSegment(acc, sc) ==
  [parts |-> Append(acc.parts, sc.segPattern),
   paramNames |-> acc.paramNames \o sc.names,
   hasWildcard |-> acc.hasWildcard]

RECURSIVE MapSegments(_, _, _)
MapSegments(segs, idx, acc) ==
  IF idx > Len(segs) THEN acc
  ELSE IF segs[idx] = <<"*">> /\ idx = Len(segs)
  THEN MapSegments(segs, idx + 1, WithWildcard(acc))
  ELSE MapSegments(segs, idx + 1, WithSegment(acc, ScanSegment(segs[idx], 1, <<>>, <<>>)))

\* prefix + suffix, the source handed to new RegExp, m being what the map
\* over the segments left
RegexSource(m) ==
  <<"^">> \o (IF m.parts # <<>> THEN <<"/">> \o Join(m.parts) ELSE <<>>)
          \o (IF m.hasWildcard THEN <<>> ELSE <<"$">>)

Compiled(m) ==
  [regex |-> NewRegExp(RegexSource(m)), paramNames |-> m.paramNames,
   hasWildcard |-> m.hasWildcard]

\* Router.compileRoute: { regex, paramNames, hasWildcard }; regex.ok FALSE
\* when new RegExp throws
compileRoute(path) == Compiled(MapSegments(segments(path), 1, NoSegments))

\* ----------------------------- new URL(url, "http://localhost").pathname
\* Request targets in origin form, or starting with "//" (an authority); the
\* characters of the bounded sets below need no percent-encoding.
RECURSIVE UpTo(_, _)
UpTo(s, stops) ==
  IF s = <<>> \/ Head(s) \in stops THEN <<>> ELSE <<Head(s)>> \o UpTo(Tail(s), stops)

\* "\" is read as "/" in a URL of a special scheme
Slashed(s) == [i \in 1..Len(s) |-> IF s[i] = "\\" THEN "/" ELSE s[i]]

RECURSIVE DropSlashes(_)
DropSlashes(s) == IF s # <<>> /\ Head(s) = "/" THEN DropSlashes(Tail(s)) ELSE s

\* a segment with every %2e read as "."
RECURSIVE Undotted(_)
Undotted(seg) ==
  IF seg = <<>> THEN <<>>
  ELSE IF Len(seg) >= 3 /\ seg[1] = "%" /\ seg[2] = "2" /\ seg[3] \in {"e", "E"}
  THEN <<".">> \o Undotted(Drop(seg, 3))
  ELSE <<Head(seg)>> \o Undotted(Tail(seg))

\* path state of the URL parser: "." is dropped, ".." takes the segment
\* before it away, and either of them at the end leaves an empty segment
RECURSIVE PathState(_, _)
PathState(segs, out) ==
  IF segs = <<>> THEN out
  ELSE LET seg == Undotted(Head(segs))
           last == Len(segs) = 1
           popped == IF out = <<>> THEN out ELSE SubSeq(out, 1, Len(out) - 1)
       IN IF seg = <<".", ".">>
          THEN PathState(Tail(segs), IF last THEN Append(popped, <<>>) ELSE popped)
          ELSE IF seg = <<".">>
          THEN PathState(Tail(segs), IF last THEN Append(out, <<>>) ELSE out)
          ELSE PathState(Tail(segs), Append(out, Head(segs)))

\* [ok, pathname]; ok FALSE: new URL throws (a target "//..." without host)
ParseUrl(url) ==
  LET s == Slashed(UpTo(UpTo(url, {"#"}), {"?"}))
      authority == Len(s) >= 2 /\ s[1] = "/" /\ s[2] = "/"
      afterSlashes == DropSlashes(s)
      host == UpTo(afterSlashes, {"/"})
      rest == IF authority THEN Drop(afterSlashes, Len(host)) ELSE s
      rel == IF rest # <<>> /\ Head(rest) = "/" THEN Tail(rest) ELSE rest
  IN IF authority /\ host = <<>> THEN [ok |-> FALSE, pathname |-> <<>>]
     ELSE [ok |-> TRUE, pathname |-> <<"/">> \o Join(PathState(Split(rel), <<>>))]

Pathname(url) == ParseUrl(url).pathname

\* --------------------------------------------------------- Router.matchRoute
\* a test that takes every captured string, the empty one too
TruthyAlways(v) == TRUE

\* if (match.groups[name]): the empty string is not truthy
TruthyString(v) == v # <<>>

\* the params of a match: the names of route.paramNames whose group is truthy
ParamsOf(route, groups) ==
  { g \in groups : g[1] \in Range(route.paramNames) /\ TruthyString(g[2]) }

\* for (const route of this.routes), from the i-th route on
RECURSIVE matchRouteFrom(_, _, _, _)

\* the i-th route, match being what its regex.exec returned (no match when
\* the method differs)
RouteTried(rs, i, method, path, match) ==
  IF match.found
  THEN [route |-> i, params |-> ParamsOf(rs[i], match.groups)]
  ELSE matchRouteFrom(rs, i + 1, method, path)

matchRouteFrom(rs, i, method, path) ==
  IF i > Len(rs) THEN NoMatchResult
  ELSE RouteTried(rs, i, method, path,
                  IF rs[i].method = method THEN Exec(rs[i].regex, path) ELSE NoMatch)

\* a matchRoute in which the route registered last wins
matchRouteLast(rs, method, url) ==
  LET hits == { i \in 1..Len(rs) :
                  rs[i].method = method /\ Exec(rs[i].regex, Pathname(url)).found }
  IN IF hits = {} THEN NoMatchResult
     ELSE LET i == CHOOSE h \in hits : \A k \in hits : k <= h
          IN [route |-> i, params |-> ParamsOf(rs[i], Exec(rs[i].regex, Pathname(url)).groups)]

\* Router.matchRoute
matchRoute(rs, method, url) == matchRouteFrom(rs, 1, method, Pathname(url))

\* ------------------------------------------------------------------ inputs
MaxTable == 2       \* routes registered
MaxTail == 3        \* characters appended to a prefix to make a request path
MaxPath == 4        \* characters of a request path made of PathChars

\* The patterns registered: those of tests/router.test.ts and of the
\* documentation, malformed ones, and patterns of literal segments.
UsersId == <<"/", "u", "s", "e", "r", "s", "/", ":", "i", "d">>
  \* /users/:id
UsersMe == <<"/", "u", "s", "e", "r", "s", "/", "m", "e">>
  \* /users/me
UsersIdDigits == <<"/", "u", "s", "e", "r", "s", "/", ":", "i", "d", "(", "\\", "d", "+", ")">>
  \* /users/:id(\d+)
ApiVersionUsers == <<"/", "a", "p", "i", "/", "v", ":", "v", "e", "r", "s", "i", "o", "n", "(", "\\", "d", "+", ")", "/", "u", "s", "e", "r", "s">>
  \* /api/v:version(\d+)/users
ProductsSku == <<"/", "p", "r", "o", "d", "u", "c", "t", "s", "/", ":", "s", "k", "u", "(", "[", "A", "-", "Z", "]", "{", "2", "}", "\\", "d", "{", "4", "}", ")">>
  \* /products/:sku([A-Z]{2}\d{4})
DatesDate == <<"/", "d", "a", "t", "e", "s", "/", ":", "d", "a", "t", "e", "(", "\\", "d", "{", "4", "}", "-", "\\", "d", "{", "2", "}", "-", "\\", "d", "{", "2", "}", ")">>
  \* /dates/:date(\d{4}-\d{2}-\d{2})
FilesWildcard == <<"/", "f", "i", "l", "e", "s", "/", "*">>
  \* /files/*
ApiVersionFiles == <<"/", "a", "p", "i", "/", "v", ":", "v", "e", "r", "s", "i", "o", "n", "(", "\\", "d", "+", ")", "/", "f", "i", "l", "e", "s", "/", "*">>
  \* /api/v:version(\d+)/files/*
UsersIdUnclosed == <<"/", "u", "s", "e", "r", "s", "/", ":", "i", "d", "(", "\\", "d", "+">>
  \* /users/:id(\d+
UsersIdOpenClass == <<"/", "u", "s", "e", "r", "s", "/", ":", "i", "d", "(", "[", "0", "-", "9", ")">>
  \* /users/:id([0-9)
UsersIdNested == <<"/", "u", "s", "e", "r", "s", "/", ":", "i", "d", "(", "(", "\\", "d", "+", ")", ")">>
  \* /users/:id((\d+))
UsersIdNoAtom == <<"/", "u", "s", "e", "r", "s", "/", ":", "i", "d", "(", "+", ")">>
  \* /users/:id(+)
LitAB == <<"/", "a", "/", "b">>
  \* /a/b
LitASlash == <<"/", "a", "/">>
  \* /a/
LitADotB == <<"/", "a", ".", "b">>
  \* /a.b
LitNoSlash == <<"a", "/", "b">>
  \* a/b
RoutePatterns ==
  {UsersId, UsersMe, UsersIdDigits, ApiVersionUsers,
   ProductsSku, DatesDate, FilesWildcard, ApiVersionFiles,
   UsersIdUnclosed, UsersIdOpenClass, UsersIdNested, UsersIdNoAtom,
   LitAB, LitASlash, LitADotB, LitNoSlash}

\* all strings of at most n characters of chars
Strings(chars, n) == UNION { [1..k -> chars] : k \in 0..n }

TailChars == {"4", "a", "/"}
PathChars == {"/", "a", "b", "A"}
\* a prefix and what follows the generated part
Frames ==
  { <<<<"/", "u", "s", "e", "r", "s", "/">>, <<>>>>,
    <<<<"/", "f", "i", "l", "e", "s", "/">>, <<>>>>,
    <<<<"/", "a", "p", "i", "/", "v">>, <<"/", "u", "s", "e", "r", "s">>>> }

\* The request targets: those of the tests and of the documentation, and
\* generated ones.
NamedUrls ==
  { <<"/", "u", "s", "e", "r", "s", "/", "m", "e">>,
    <<"/", "u", "s", "e", "r", "s", "/", "4", "2">>,
    <<"/", "u", "s", "e", "r", "s", "/">>,
    <<"/", "u", "s", "e", "r", "s", "/", "1", "/", "2">>,
    <<"/", "u", "s", "e", "r", "s", "/", "a", "b", "c">>,
    <<"/", "u", "s", "e", "r", "s", "/", "4", "2", "?", "x", "=", "1">>,
    <<"/", "u", "s", "e", "r", "s", "/", ".">>,
    <<"/", "u", "s", "e", "r", "s", "/", "4", "2", "/", ".", ".">>,
    <<"/", "u", "s", "e", "r", "s", "/", "4", "2", "(">>,
    <<"/", "u", "s", "e", "r", "s", "/", "4", "(", "\\", "d", "+">>,
    <<"/", "a", "p", "i", "/", "v", "1", "/", "u", "s", "e", "r", "s">>,
    <<"/", "a", "p", "i", "/", "v", "4", "2", "/", "u", "s", "e", "r", "s">>,
    <<"/", "a", "p", "i", "/", "v", "b", "e", "t", "a", "/", "u", "s", "e", "r", "s">>,
    <<"/", "a", "p", "i", "/", "v", "1", ".", "2", "/", "u", "s", "e", "r", "s">>,
    <<"/", "p", "r", "o", "d", "u", "c", "t", "s", "/", "A", "B", "1", "2", "3", "4">>,
    <<"/", "p", "r", "o", "d", "u", "c", "t", "s", "/", "1", "2", "3", "A", "B", "C">>,
    <<"/", "p", "r", "o", "d", "u", "c", "t", "s", "/", "A", "1", "2", "3", "4">>,
    <<"/", "d", "a", "t", "e", "s", "/", "2", "0", "2", "4", "-", "1", "2", "-", "2", "5">>,
    <<"/", "d", "a", "t", "e", "s", "/", "2", "0", "2", "4", "-", "1", "3", "-", "4", "5">>,
    <<"/", "d", "a", "t", "e", "s", "/", "2", "4", "-", "1", "2", "-", "2", "5">>,
    <<"/", "f", "i", "l", "e", "s", "/", "a", "/", "b", "/", "c", ".", "t", "x", "t">>,
    <<"/", "f", "i", "l", "e", "s", "/">>,
    <<"/", "f", "i", "l", "e", "s">>,
    <<"/", "a", "p", "i", "/", "v", "2", "/", "f", "i", "l", "e", "s", "/", "u", "p", "l", "o", "a", "d", "s", "/", "p", "h", "o", "t", "o", ".", "j", "p", "g">>,
    <<"/", "a", "p", "i", "/", "v", "2", "/", "f", "i", "l", "e", "s", "/">>,
    <<"/", "n", "o", "n", "e", "x", "i", "s", "t", "e", "n", "t">>,
    <<"/", "/">>,
    <<"/", "a", ".", "b">>,
    <<"/", "a", "a", "b">>,
    <<"/", "a", "/", ".", "/", "b">>,
    <<"a", "/", "b">>,
    <<"/", "a", "/", "b", "#", "t", "o", "p">> }

Urls ==
  NamedUrls
    \cup { f[1] \o tl \o f[2] : f \in Frames, tl \in Strings(TailChars, MaxTail) }
    \cup Strings(PathChars, MaxPath)

MatchRequests ==
  { [method |-> "GET", url |-> u] : u \in Urls }
    \cup { [method |-> "POST", url |-> <<"/", "u", "s", "e", "r", "s", "/", "4", "2">>] }

\* ----------------------------------------------------------------- actions
\* a table in which the route pushed comes first
PushedFirst(method, path, compiled) ==
  IF compiled.regex.ok
  THEN /\ routes' = <<[method |-> method, path |-> path, regex |-> compiled.regex,
                       paramNames |-> compiled.paramNames,
                       hasWildcard |-> compiled.hasWildcard]>> \o routes
       /\ thrown' = ""
  ELSE /\ thrown' = "SyntaxError"
       /\ UNCHANGED routes

\* this.routes.push(...) with what compileRoute returned, or the
\* SyntaxError of new RegExp
Pushed(method, path, compiled) ==
  IF compiled.regex.ok
  THEN /\ routes' = Append(routes, [method |-> method, path |-> path, regex |-> compiled.regex,
                                    paramNames |-> compiled.paramNames,
                                    hasWildcard |-> compiled.hasWildcard])
       /\ thrown' = ""
  ELSE /\ thrown' = "SyntaxError"
       /\ UNCHANGED routes

\* Router.addRoute (by get, post, ...): the pattern is compiled, and the
\* route is pushed when compileRoute returned.  The table is built before
\* the request that is resolved against it arrives.
RegisterRoute(method, path) ==
  /\ phase = "setup"
  /\ Len(routes) < MaxTable
  /\ Pushed(method, path, compileRoute(path))
  /\ UNCHANGED <<phase, globalMiddlewares, req, ctxParams, runVars, resVars, histVars, matchResult, ctxVars, moreVars>>

\* Router.handle up to the 404 of a request no route matches: the URL is
\* parsed (handle rejects and serve answers 500 when it is invalid) and the
\* route is looked up.
Resolve(r) ==
  /\ phase = "setup"
  /\ phase' = "resolved"
  /\ req' = r
  /\ IF ParseUrl(r.url).ok
     THEN /\ matchResult' = matchRoute(routes, r.method, r.url)
          /\ thrown' = ""
          /\ response' = IF matchResult'.route = 0 THEN RouteNotFound ELSE response
     ELSE /\ thrown' = "TypeError"
          /\ response' = InternalServerError
          /\ UNCHANGED matchResult
  /\ UNCHANGED <<cfgVars, ctxParams, runVars, extraWrites, histVars, ctxVars, moreVars>>

MatchNext ==
  \/ \E path \in RoutePatterns : RegisterRoute("GET", path)
  \/ \E r \in MatchRequests : Resolve(r)

MatchSpec == Init /\ [][MatchNext]_vars

\* ------------------------------------------------------ claims on matching
\* a request was resolved and its URL parsed
Answered == phase = "resolved" /\ thrown = ""
ReqPath == Pathname(req.url)
\* route q has the method of the request and its pattern matches the path
Accepting(q) == routes[q].method = req.method /\ Exec(routes[q].regex, ReqPath).found
\* the only route registered has pattern p
OnlyRoute(p) == Len(routes) = 1 /\ routes[1].path = p

\* C11: matchRoute returns the earliest registered route that has the
\* request's method and whose pattern matches the path, however specific a
\* later route is: with /users/:id registered before /users/me, GET /users/me
\* resolves to the first route with id = "me".
C11_FirstRegisteredWins ==
  Answered =>
    /\ \A q \in 1..Len(routes) :
         Accepting(q) => (matchResult.route # 0 /\ matchResult.route <= q)
    /\ matchResult.route # 0 => Accepting(matchResult.route)
    /\ ( /\ Len(routes) = 2
         /\ routes[1].path = UsersId
         /\ routes[2].path = UsersMe
         /\ req = [method |-> "GET", url |-> <<"/", "u", "s", "e", "r", "s", "/", "m", "e">>] )
       => matchResult = [route |-> 1, params |-> {<<<<"i", "d">>, <<"m", "e">>>>}]

C11_Witness ==
  /\ Answered
  /\ Len(routes) = 2
  /\ routes[1].path = UsersId
  /\ routes[2].path = UsersMe
  /\ req.url = <<"/", "u", "s", "e", "r", "s", "/", "m", "e">>
  /\ matchResult.route = 1
  /\ matchResult.params = {<<<<"i", "d">>, <<"m", "e">>>>}

\* s is pre, then something, then suf
Framed(s, pre, suf) ==
  /\ Len(s) >= Len(pre) + Len(suf)
  /\ SubSeq(s, 1, Len(pre)) = pre
  /\ SubSeq(s, Len(s) - Len(suf) + 1, Len(s)) = suf
Middle(s, pre, suf) == SubSeq(s, Len(pre) + 1, Len(s) - Len(suf))
OneSegment(v) == Len(v) > 0 /\ "/" \notin Range(v)
GetRequest == Answered /\ req.method = "GET"
UsersSlash == <<"/", "u", "s", "e", "r", "s", "/">>

\* C16: a :name token without sub-pattern matches exactly one non-empty
\* segment.  With /users/:id the only route, a GET request matches exactly
\* when its path is /users/ followed by one non-empty value without "/",
\* and then params is {id: value}; every other path (/users/, /users/1/2)
\* gets the 404 response.
C16_OneNonEmptySegment ==
  (GetRequest /\ OnlyRoute(UsersId)) =>
    IF Framed(ReqPath, UsersSlash, <<>>) /\ OneSegment(Middle(ReqPath, UsersSlash, <<>>))
    THEN matchResult = [route |-> 1,
                        params |-> {<<<<"i", "d">>, Middle(ReqPath, UsersSlash, <<>>)>>}]
    ELSE matchResult = NoMatchResult /\ response = RouteNotFound

C16_Witness ==
  /\ GetRequest
  /\ OnlyRoute(UsersId)
  /\ req.url = UsersSlash \o <<"4", "2">>
  /\ matchResult = [route |-> 1, params |-> {<<<<"i", "d">>, <<"4", "2">>>>}]

AllDigits(v) == Len(v) > 0 /\ \A k \in 1..Len(v) : v[k] \in Range(Digits)
\* two capital letters and four digits
IsSku(v) ==
  /\ Len(v) = 6
  /\ \A k \in 1..2 : v[k] \in Range(Uppers)
  /\ \A k \in 3..6 : v[k] \in Range(Digits)
ApiV == <<"/", "a", "p", "i", "/", "v">>
SlashUsers == <<"/", "u", "s", "e", "r", "s">>
ProductsSlash == <<"/", "p", "r", "o", "d", "u", "c", "t", "s", "/">>
\* the only route is pattern p, which puts the value of parameter name
\* between pre and suf: the request matches exactly when the value is Ok
ConstrainedAs(p, pre, suf, name, Ok(_)) ==
  (GetRequest /\ OnlyRoute(p)) =>
    IF Framed(ReqPath, pre, suf) /\ Ok(Middle(ReqPath, pre, suf))
    THEN matchResult = [route |-> 1, params |-> {<<name, Middle(ReqPath, pre, suf)>>}]
    ELSE matchResult = NoMatchResult /\ response = RouteNotFound

\* C17: a :name(sub-pattern) token matches only when its part of the segment
\* satisfies the sub-pattern in full, also when the token is embedded in
\* literal text: /users/:id(\d+) matches exactly /users/<digits>,
\* /api/v:version(\d+)/users exactly /api/v<digits>/users, and
\* /products/:sku([A-Z]{2}\d{4}) exactly /products/<two capitals, four
\* digits>; the value is bound to the name and every other path gets 404.
C17_SubPatternInFull ==
  /\ ConstrainedAs(UsersIdDigits, UsersSlash, <<>>, <<"i", "d">>, AllDigits)
  /\ ConstrainedAs(ApiVersionUsers, ApiV, SlashUsers,
                   <<"v", "e", "r", "s", "i", "o", "n">>, AllDigits)
  /\ ConstrainedAs(ProductsSku, ProductsSlash, <<>>, <<"s", "k", "u">>, IsSku)

C17_Witness ==
  /\ GetRequest
  /\ OnlyRoute(ApiVersionUsers)
  /\ req.url = ApiV \o <<"4", "2">> \o SlashUsers
  /\ matchResult = [route |-> 1,
                    params |-> {<<<<"v", "e", "r", "s", "i", "o", "n">>, <<"4", "2">>>>}]

DatesSlash == <<"/", "d", "a", "t", "e", "s", "/">>
DigitValue(c) == CHOOSE k \in 0..9 : Digits[k + 1] = c
TwoDigits(v, k) == 10 * DigitValue(v[k]) + DigitValue(v[k + 1])

\* C18: the date sub-pattern \d{4}-\d{2}-\d{2} accepts only values whose
\* month is in 01..12 and whose day is in 01..31: with
\* /dates/:date(\d{4}-\d{2}-\d{2}) the only route, a request that matches
\* carries such a month and day, and GET /dates/2024-13-45 gets 404.
C18_MonthAndDayInRange ==
  (GetRequest /\ OnlyRoute(DatesDate)) =>
    /\ matchResult.route = 1 =>
         /\ TwoDigits(Middle(ReqPath, DatesSlash, <<>>), 6) \in 1..12
         /\ TwoDigits(Middle(ReqPath, DatesSlash, <<>>), 9) \in 1..31
    /\ req.url = DatesSlash \o <<"2", "0", "2", "4", "-", "1", "3", "-", "4", "5">>
         => matchResult = NoMatchResult /\ response = RouteNotFound

FilesSlash == <<"/", "f", "i", "l", "e", "s", "/">>
SlashFilesSlash == <<"/">> \o Drop(FilesSlash, 1)
WildcardKey == <<"w", "i", "l", "d", "c", "a", "r", "d">>
VersionKey == <<"v", "e", "r", "s", "i", "o", "n">>
\* the text of s before its first "/"
FirstPart(s) == UpTo(s, {"/"})

\* C19: a pattern whose final segment is * matches every path that extends
\* the prefix before it by a non-empty remainder and binds the remainder,
\* separators included, to wildcard.  /files/* resolves /files/<remainder>
\* to {wildcard: remainder}; /api/v:version(\d+)/files/* resolves
\* /api/v<digits>/files/<remainder> to {version: digits, wildcard: remainder}.
C19_WildcardBindsRemainder ==
  /\ ( /\ GetRequest
       /\ OnlyRoute(FilesWildcard)
       /\ Framed(ReqPath, FilesSlash, <<>>)
       /\ Len(ReqPath) > Len(FilesSlash) )
     => matchResult = [route |-> 1,
                       params |-> {<<WildcardKey, Middle(ReqPath, FilesSlash, <<>>)>>}]
  /\ ( /\ GetRequest
       /\ OnlyRoute(ApiVersionFiles)
       /\ Framed(ReqPath, ApiV, <<>>)
       /\ AllDigits(FirstPart(Drop(ReqPath, Len(ApiV))))
       /\ Framed(Drop(ReqPath, Len(ApiV) + Len(FirstPart(Drop(ReqPath, Len(ApiV))))),
                 SlashFilesSlash, <<>>)
       /\ Len(ReqPath) > Len(ApiV) + Len(FirstPart(Drop(ReqPath, Len(ApiV)))) + Len(SlashFilesSlash) )
     => matchResult =
          [route |-> 1,
           params |-> { <<VersionKey, FirstPart(Drop(ReqPath, Len(ApiV)))>>,
                        <<WildcardKey,
                          Drop(ReqPath, Len(ApiV) + Len(FirstPart(Drop(ReqPath, Len(ApiV))))
                                          + Len(SlashFilesSlash))>> }]

C19_Witness ==
  /\ GetRequest
  /\ OnlyRoute(FilesWildcard)
  /\ req.url = FilesSlash \o <<"a", "/", "b", "/", "c", ".", "t", "x", "t">>
  /\ matchResult = [route |-> 1,
                    params |-> {<<WildcardKey, <<"a", "/", "b", "/", "c", ".", "t", "x", "t">>>>}]

\* the patterns made only of literal segments
LiteralPatterns == {UsersMe, LitAB, LitASlash, LitADotB, LitNoSlash}
\* a literal pattern is the only route and a GET request was resolved
LiteralRoute == GetRequest /\ Len(routes) = 1 /\ routes[1].path \in LiteralPatterns
Rooted(p) == IF p # <<>> /\ Head(p) = "/" THEN p ELSE <<"/">> \o p

MalformedPatterns == {UsersIdUnclosed, UsersIdOpenClass, UsersIdNoAtom}

\* C15: registering a route whose parameter sub-pattern is malformed fails
\* at registration: no route with such a pattern is ever in the route table.
C15_MalformedNeverRegistered ==
  \A q \in 1..Len(routes) : routes[q].path \notin MalformedPatterns

\* ------------------------------------------------ claims on the timeout guard
\* the timeout guard running in frame f settles in this step
TimeoutSettles(f) ==
  /\ frames[f].fn = "mw"
  /\ frames[f].kind = "timeout"
  /\ frames'[f].fn = "free"

\* the timer of the guard in frame f expires in this step
TimerExpires(f) ==
  /\ Idle
  /\ f \in timers
  /\ frames[f].st = "await"
  /\ frames'[f].st = "run"

\* C13: the timeout guard calls next exactly once and settles with the
\* outcome of the race: with what the downstream chain settled with when
\* that came first, and with the timeout failure (AppError 408
\* REQUEST_TIMEOUT, code "Timeout" here) once its timer expired first; the
\* outcome is handed to the caller awaiting the guard as that of any other
\* middleware is.
C13_TimeoutRace ==
  [][\A f \in 1..MaxFrames :
       /\ TimerExpires(f) =>
            /\ frames[f].nexts = 1
            /\ frames'[f].res = Err("Timeout", frames[f].chain, frames[f].idx)
       /\ TimeoutSettles(f) =>
            /\ frames[f].nexts = 1
            /\ frames[f].res.k \in {"ok", "err"}
            /\ frames[f].parent # 0 =>
                 /\ frames'[frames[f].parent].res = frames[f].res
                 /\ micro' = Append(micro, frames[f].parent)]_vars

C13_Witness ==
  /\ phase = "resolved"
  /\ globalMiddlewares = <<"timeout">>
  /\ handleErr = Err("Timeout", 0, 1)
  /\ firstFail = handleErr
  /\ response = InternalServerError

\* C14: whenever the timeout guard has settled, with the outcome of the
\* downstream chain or with the timeout failure, its timer is cleared: every
\* armed timer belongs to a guard that is still waiting for its race or is
\* about to run its finally block, so no timer is left that could produce a
\* timeout failure after the guard completed or failed.
C14_TimerCleared ==
  \A f \in timers :
    /\ frames[f].fn = "mw"
    /\ frames[f].kind = "timeout"
    /\ frames[f].nexts = 1

C14_Witness ==
  /\ phase = "resolved"
  /\ globalMiddlewares = <<"timeout">>
  /\ startsAt[0][1] = 1
  /\ firstFail.k = "err"
  /\ firstFail.code = "Error"
  /\ handleErr = firstFail
  /\ timers = {}
  /\ Live = {}

\* ------------------------------------------------- concurrent requests
\* Each request is handled by its own call of Router.handle; the calls
\* interleave wherever one of them awaits.  The data a request carries is
\* marked with the request's number, so that data of one request showing up
\* in the Context of another is visible.
Incomings == [token : BOOLEAN, search : BOOLEAN, payload : BOOLEAN]

\* a new object: its reference is the next index of the heap
Allocate(h, content) == Append(h, content)
Ref(h) == Len(h) + 1

\* const query = {}; searchParams.forEach(...)
QueryOf(r, in) == IF in.search THEN {<<"q", r>>} ELSE {}

\* new Context(req, res, params, query, body): this.isAuthenticated = false
createContext(queryRef, params) ==
  [params |-> params, query |-> queryRef, body |-> 0, isAuthenticated |-> FALSE]

\* an authentication flag kept in one place for all Contexts
SetAuthenticatedShared(cs, r, v) ==
  [c \in DOMAIN cs |-> [cs[c] EXCEPT !.isAuthenticated = v]]

\* ctx.isAuthenticated = v
SetAuthenticated(cs, r, v) == [cs EXCEPT ![r].isAuthenticated = v]

\* Router.handle up to its first await: the query object is built, the
\* params object is the {} of the call, the Context is created.
HandleBegin(r, in) ==
  /\ stage[r] = "idle"
  /\ incoming' = [incoming EXCEPT ![r] = in]
  /\ LET q == Ref(heap)
         h1 == Allocate(heap, QueryOf(r, in))
         p == Ref(h1)
     IN /\ heap' = Allocate(h1, {})
        /\ contexts' = [contexts EXCEPT ![r] = createContext(q, p)]
  /\ stage' = [stage EXCEPT ![r] = "created"]
  /\ UNCHANGED <<phase, cfgVars, req, ctxParams, runVars, resVars, histVars, matchVars, moreVars, observed>>

\* authMiddleware: the flag is set from the token of the request.
Authenticate(r) ==
  /\ stage[r] = "created"
  /\ contexts' = SetAuthenticated(contexts, r, incoming[r].token)
  /\ stage' = [stage EXCEPT ![r] = "authenticated"]
  /\ UNCHANGED <<phase, cfgVars, req, ctxParams, runVars, resVars, histVars, matchVars, moreVars,
                 incoming, heap, observed>>

\* bodyParserMiddleware, after the body has arrived: ctx.body = JSON.parse(rawBody)
ParseBody(r) ==
  /\ stage[r] \in {"created", "authenticated"}
  /\ contexts' = [contexts EXCEPT ![r].body = IF incoming[r].payload THEN r ELSE 0]
  /\ stage' = [stage EXCEPT ![r] = "parsed"]
  /\ UNCHANGED <<phase, cfgVars, req, ctxParams, runVars, resVars, histVars, matchVars, moreVars,
                 incoming, heap, observed>>

\* the route is matched: Object.assign(currentCtx.params, match.params)
AssignParams(r) ==
  /\ stage[r] \in {"created", "authenticated", "parsed"}
  /\ heap' = [heap EXCEPT ![contexts[r].params] = Assign(@, {<<"id", r>>})]
  /\ stage' = [stage EXCEPT ![r] = "matched"]
  /\ UNCHANGED <<phase, cfgVars, req, ctxParams, runVars, resVars, histVars, matchVars, moreVars,
                 incoming, contexts, observed>>

\* what is read through a Context
ContextView(h, c) ==
  [params |-> h[c.params], query |-> h[c.query], body |-> c.body,
   isAuthenticated |-> c.isAuthenticated]

\* the handler of the route reads ctx.params, ctx.query, ctx.body and
\* ctx.isAuthenticated
HandlerReads(r) ==
  /\ stage[r] = "matched"
  /\ observed' = [observed EXCEPT ![r] = ContextView(heap, contexts[r])]
  /\ stage' = [stage EXCEPT ![r] = "done"]
  /\ UNCHANGED <<phase, cfgVars, req, ctxParams, runVars, resVars, histVars, matchVars, moreVars,
                 incoming, heap, contexts>>

ContextNext ==
  \E r \in RequestIds :
    \/ \E in \in Incomings : HandleBegin(r, in)
    \/ Authenticate(r)
    \/ ParseBody(r)
    \/ AssignParams(r)
    \/ HandlerReads(r)

ContextSpec == Init /\ [][ContextNext]_vars

\* only data of request r, or nothing, is in the view
OwnData(r, view) ==
  /\ \A kv \in view.params \cup view.query : kv[2] = r
  /\ view.body \in {0, r}
  /\ view.isAuthenticated => incoming[r].token

\* C12: every request owns its Context.  Under every interleaving of the
\* requests being handled, the Contexts of two requests share neither their
\* params nor their query object, and what is read through the Context of a
\* request (params, query, body, authentication flag), at any time and by
\* its handler, is data of that request only.
C12_ContextIsolation ==
  \A r \in RequestIds :
    /\ stage[r] # "idle" =>
         /\ OwnData(r, ContextView(heap, contexts[r]))
         /\ \A o \in RequestIds \ {r} :
              {contexts[r].params, contexts[r].query}
                \cap {contexts[o].params, contexts[o].query} = {}
    /\ OwnData(r, observed[r])

C12_Witness ==
  /\ stage[1] = "done"
  /\ stage[2] = "matched"
  /\ incoming[1] = [token |-> TRUE, search |-> TRUE, payload |-> TRUE]
  /\ incoming[2] = [token |-> FALSE, search |-> TRUE, payload |-> TRUE]
  /\ contexts[2].params < contexts[1].params
  /\ observed[1] = [params |-> {<<"id", 1>>}, query |-> {<<"q", 1>>}, body |-> 1,
                    isAuthenticated |-> TRUE]
  /\ ContextView(heap, contexts[2]) =
       [params |-> {<<"id", 2>>}, query |-> {<<"q", 2>>}, body |-> 2,
        isAuthenticated |-> FALSE]

\* ------------------------------------------------ claims on params and query
\* the groups of the matched route's pattern that took part in the match
Participating == Exec(routes[matchResult.route].regex, ReqPath).groups
Keys(pairs) == { kv[1] : kv \in pairs }
MatchedRoute == Answered /\ matchResult.route # 0

\* C21 as claimed: for a matched route the params map contains exactly the
\* parameter names that participated in the match.
C21_ExactlyParticipating ==
  MatchedRoute => Keys(matchResult.params) = Keys(Participating)

\* C21, amended: for a matched route the params map contains exactly the
\* parameter names that participated in the match with a non-empty value,
\* each once and with its captured value; a parameter that did not
\* participate, or that captured the empty string, is absent and never
\* present with an empty value.
C21_ParticipatingNonEmpty ==
  MatchedRoute =>
    /\ \A kv \in matchResult.params :
         /\ kv[1] \in Range(routes[matchResult.route].paramNames)
         /\ kv[2] # <<>>
         /\ kv \in Participating
    /\ \A kv \in Participating : kv[2] # <<>> => kv \in matchResult.params
    /\ Cardinality(Keys(matchResult.params)) = Cardinality(matchResult.params)

C21_Witness ==
  /\ GetRequest
  /\ OnlyRoute(ApiVersionFiles)
  /\ req.url = ApiV \o <<"2">> \o SlashFilesSlash
  /\ <<WildcardKey, <<>>>> \in Participating
  /\ matchResult = [route |-> 1, params |-> {<<VersionKey, <<"2">>>>}]

\* ------------------------------------------------------ the query map
\* Router.handle, lines 257 to 267: the query object is built from the
\* pairs of fullUrl.searchParams.  A value is a string, an array, a function
\* (what Object.prototype holds) or undefined.
MaxQuery == 3
QueryKeys == {"a", "toString"}
QueryValues == {"", "1", "2"}
QueryPairs == QueryKeys \X QueryValues
SearchParamsSets == UNION { [1..n -> QueryPairs] : n \in 0..MaxQuery }

StringValue(v) == [t |-> "string", s |-> v]
ArrayValue(xs) == [t |-> "array", xs |-> xs]
FunctionValue == [t |-> "function"]
Undefined == [t |-> "undefined"]

\* the properties every object inherits from Object.prototype
PrototypeKeys == {"toString"}

\* query[k]: the own property, else the inherited one, else undefined
Get(q, k) ==
  IF \E kv \in q : kv[1] = k THEN (CHOOSE kv \in q : kv[1] = k)[2]
  ELSE IF k \in PrototypeKeys THEN FunctionValue
  ELSE Undefined

\* query[k] = val
Put(q, k, val) == { kv \in q : kv[1] # k } \cup {<<k, val>>}

\* a test for the presence of the key itself
OwnProperty(q, k, val) == \E kv \in q : kv[1] = k

\* if (query[k]): undefined and the empty string are not truthy
TruthyValue(q, k, val) == val.t \in {"array", "function"} \/ (val.t = "string" /\ val.s # "")

\* the callback of forEach, with old the value of query[k]
Accumulate(q, k, v, old) ==
  IF TruthyValue(q, k, old)
  THEN Put(q, k, IF old.t = "array" THEN ArrayValue(Append(old.xs, StringValue(v)))
                 ELSE ArrayValue(<<old, StringValue(v)>>))
  ELSE Put(q, k, StringValue(v))

\* new URL(req.url, ...): the query string is parsed; const query = {}
UrlParsed(pairs) ==
  /\ queryStage = "idle"
  /\ searchParams' = pairs
  /\ visited' = 0
  /\ query' = {}
  /\ queryStage' = IF pairs = <<>> THEN "built" ELSE "forEach"
  /\ UNCHANGED QueryRest

\* fullUrl.searchParams.forEach((v, k) => { ... }): the next pair
ForEachPair ==
  /\ queryStage = "forEach"
  /\ query' = Accumulate(query, searchParams[visited + 1][1], searchParams[visited + 1][2],
                         Get(query, searchParams[visited + 1][1]))
  /\ visited' = visited + 1
  /\ queryStage' = IF visited' = Len(searchParams) THEN "built" ELSE "forEach"
  /\ UNCHANGED <<QueryRest, searchParams>>

QueryNext ==
  \/ \E pairs \in SearchParamsSets : UrlParsed(pairs)
  \/ ForEachPair

QuerySpec == Init /\ [][QueryNext]_vars

\* the values of key k in the query string, in order of appearance
RECURSIVE ValuesOf(_, _)
ValuesOf(pairs, k) ==
  IF pairs = <<>> THEN <<>>
  ELSE (IF Head(pairs)[1] = k THEN <<StringValue(Head(pairs)[2])>> ELSE <<>>)
       \o ValuesOf(Tail(pairs), k)

\* C22: once the query map is built, a key that occurs k >= 2 times in the
\* query string maps to the list of all its k values in order of appearance,
\* a key that occurs once maps to its single value, and a key that does not
\* occur is no key of the map, whatever the values are.
C22_RepeatedKeysAccumulate ==
  queryStage = "built" =>
    \A k \in QueryKeys :
      /\ Len(ValuesOf(searchParams, k)) = 0 => ~OwnProperty(query, k, Undefined)
      /\ Len(ValuesOf(searchParams, k)) = 1 =>
           <<k, ValuesOf(searchParams, k)[1]>> \in query
      /\ Len(ValuesOf(searchParams, k)) >= 2 =>
           <<k, ArrayValue(ValuesOf(searchParams, k))>> \in query

\* ------------------------------------------------------ paths of files
\* Paths are strings, that is sequences of characters; the separator is "/".
IsAbsolute(p) == p # <<>> /\ Head(p) = "/"

\* normalizeString of path: "." and empty segments go, ".." takes the
\* segment before it, or stays when allowAboveRoot and there is none to take
RECURSIVE NormalizeString(_, _, _)
NormalizeString(segs, acc, allowAboveRoot) ==
  IF segs = <<>> THEN acc
  ELSE IF Head(segs) = <<>> \/ Head(segs) = <<".">>
    THEN NormalizeString(Tail(segs), acc, allowAboveRoot)
  ELSE IF Head(segs) = <<".", ".">>
    THEN IF acc # <<>> /\ acc[Len(acc)] # <<".", ".">>
         THEN NormalizeString(Tail(segs), SubSeq(acc, 1, Len(acc) - 1), allowAboveRoot)
         ELSE IF allowAboveRoot
         THEN NormalizeString(Tail(segs), Append(acc, Head(segs)), allowAboveRoot)
         ELSE NormalizeString(Tail(segs), acc, allowAboveRoot)
  ELSE NormalizeString(Tail(segs), Append(acc, Head(segs)), allowAboveRoot)

\* path.resolve(...paths): from the right up to the first absolute path
RECURSIVE ResolvedFrom(_, _, _)
ResolvedFrom(paths, i, acc) ==
  IF i = 0 THEN acc
  ELSE IF paths[i] = <<>> THEN ResolvedFrom(paths, i - 1, acc)
  ELSE IF IsAbsolute(paths[i]) THEN paths[i] \o <<"/">> \o acc
  ELSE ResolvedFrom(paths, i - 1, paths[i] \o <<"/">> \o acc)

\* process.cwd()
cwd == <<"/", "w">>

resolve(paths) ==
  <<"/">> \o Join(NormalizeString(Split(ResolvedFrom(<<cwd>> \o paths, Len(paths) + 1, <<>>)),
                                  <<>>, FALSE))

\* path.normalize(p)
TrailingSep(p) == p[Len(p)] = "/"
Normalized(p, body) ==
  IF body = <<>>
  THEN (IF IsAbsolute(p) THEN <<"/">> ELSE IF TrailingSep(p) THEN <<".", "/">> ELSE <<".">>)
  ELSE (IF IsAbsolute(p) THEN <<"/">> ELSE <<>>) \o body
       \o (IF TrailingSep(p) THEN <<"/">> ELSE <<>>)
normalize(p) ==
  IF p = <<>> THEN <<".">>
  ELSE Normalized(p, Join(NormalizeString(Split(p), <<>>, ~IsAbsolute(p))))

\* decodeURIComponent: %XX is the character of code XX.  The characters of
\* codes 0x20 to 0x7e are listed, a control code and the grave accent (which
\* a string here cannot hold) are shown as "?"; a byte
\* from 0x80 on that begins no complete UTF-8 sequence is a URIError, and no
\* path below holds a complete one.
Ascii ==
  <<" ", "!", "\"", "#", "$", "%", "&", "'", "(", ")", "*", "+", ",", "-", ".", "/">>
  \o Digits \o <<":", ";", "<", "=", ">", "?", "@">>
  \o Uppers \o <<"[", "\\", "]", "^", "_", "?">>
  \o Lowers \o <<"{", "|", "}", "~">>
HexDigits == Digits \o <<"a", "b", "c", "d", "e", "f">>
HexUpper == Digits \o <<"A", "B", "C", "D", "E", "F">>
IsHex(c) == c \in Range(HexDigits) \cup Range(HexUpper)
HexValue(c) ==
  IF c \in Range(HexDigits) THEN (CHOOSE i \in 1..16 : HexDigits[i] = c) - 1
  ELSE (CHOOSE i \in 1..16 : HexUpper[i] = c) - 1
FromCharCode(n) == IF n >= 32 /\ n <= 126 THEN Ascii[n - 31] ELSE "?"

URIError == [ok |-> FALSE, s |-> <<>>]
UriDecoded(c, rest) == IF rest.ok THEN [ok |-> TRUE, s |-> <<c>> \o rest.s] ELSE rest

RECURSIVE decodeURIComponent(_)
decodeURIComponent(s) ==
  IF s = <<>> THEN [ok |-> TRUE, s |-> <<>>]
  ELSE IF Head(s) # "%" THEN UriDecoded(Head(s), decodeURIComponent(Tail(s)))
  ELSE IF Len(s) >= 3 /\ IsHex(s[2]) /\ IsHex(s[3]) /\ HexValue(s[2]) < 8
    THEN UriDecoded(FromCharCode(16 * HexValue(s[2]) + HexValue(s[3])),
                    decodeURIComponent(Drop(s, 3)))
  ELSE URIError

\* ------------------------------------------------------ the file helpers
\* The file system: the files there are, every other path is ENOENT or a
\* directory.
PublicDir == <<"p">>
ViewsDir == <<"v">>
safeBase == resolve(<<PublicDir>>)
VIEWS_PATH == resolve(<<ViewsDir>>)
sep == <<"/">>
FileF == <<"f">>
Files ==
  { safeBase \o sep \o FileF, safeBase \o <<"2">> \o sep \o FileF,
    VIEWS_PATH \o sep \o FileF, VIEWS_PATH \o <<"2">> \o sep \o FileF,
    <<"/", "e", "/", "f">> }
Directories == { safeBase, VIEWS_PATH, cwd, <<"/">>, <<"/", "e">>,
                 safeBase \o <<"2">>, VIEWS_PATH \o <<"2">> }

\* the paths asked for: up to MaxSegments segments, joined by "/" or by "%2f"
MaxSegments == 4
DotDot == <<".", ".">>
PathSegments ==
  { DotDot, <<"%", "2", "e", "%", "2", "E">>, FileF, <<"p", "2">>, <<"v", "2">>, <<"e">>,
    <<"%">> }
RECURSIVE JoinWith(_, _)
JoinWith(parts, by) ==
  IF Len(parts) = 1 THEN Head(parts)
  ELSE Head(parts) \o by \o JoinWith(Tail(parts), by)
RawPaths ==
  { JoinWith(parts, sep) : parts \in UNION { [1..n -> PathSegments] : n \in 1..MaxSegments } }
EncodedPaths ==
  { JoinWith(parts, <<"%", "2", "f">>) :
      parts \in UNION { [1..n -> PathSegments] : n \in 2..MaxSegments } }
StaticPrefix == <<"/", "s", "t", "a", "t", "i", "c", "/">>
StaticUrls ==
  { StaticPrefix \o p : p \in RawPaths \cup EncodedPaths } \cup {<<"/", "f">>, StaticPrefix}

\* fs.readFile(path) and its like: the outcome by what is at the path
ReadOutcome(path, found, isDir, missing) ==
  IF path \in Files THEN found ELSE IF path \in Directories THEN isDir ELSE missing

Called(helper, input, reads, outcome) ==
  /\ fileHelper = "none"
  /\ fileHelper' = helper
  /\ fileInput' = input
  /\ fileReads' = reads
  /\ fileOutcome' = outcome
  /\ UNCHANGED FileRest

\* resolvedPath.startsWith(safeBase), and the test with the separator
StartsWithBase(resolvedPath, base) == StartsWith(resolvedPath, base)
StartsWithBaseSep(resolvedPath, base) == StartsWith(resolvedPath, base \o sep)

\* serveStatic(baseDir), from the check of the resolved path on
StaticChecked(url, resolvedPath) ==
  IF ~StartsWithBase(resolvedPath, safeBase)
  THEN Called("serveStatic", url, {}, "403")
  ELSE Called("serveStatic", url, {resolvedPath},
              ReadOutcome(resolvedPath, "200", "next", "next"))

StaticDecoded(url, unsafePath) ==
  IF ~unsafePath.ok THEN Called("serveStatic", url, {}, "URIError")
  ELSE StaticChecked(url, resolve(<<PublicDir, unsafePath.s>>))

\* the middleware of serveStatic(baseDir) on a request of this url
ServeStatic(url) ==
  IF ~StartsWith(url, StaticPrefix) THEN Called("serveStatic", url, {}, "next")
  ELSE StaticDecoded(url, decodeURIComponent(Drop(url, Len(StaticPrefix))))

\* renderFile(filePath), from the check of the full path on
RenderChecked(filePath, fullPath) ==
  IF ~StartsWithBaseSep(fullPath, VIEWS_PATH)
  THEN Called("renderFile", filePath, {}, "Path traversal attempt blocked")
  ELSE Called("renderFile", filePath, {fullPath},
              ReadOutcome(fullPath, "rendered", "EISDIR", "ENOENT"))

RenderFile(filePath) == RenderChecked(filePath, resolve(<<VIEWS_PATH, normalize(filePath)>>))

\* Context.download(filePath): statSync(filePath), readFileSync(filePath)
Download(filePath) ==
  Called("download", filePath, {resolve(<<filePath>>)},
         ReadOutcome(resolve(<<filePath>>), "sent", "EISDIR", "ENOENT"))

\* Context.streamFile(filePath): createReadStream(filePath)
StreamFile(filePath) ==
  Called("streamFile", filePath, {resolve(<<filePath>>)},
         ReadOutcome(resolve(<<filePath>>), "streamed", "EISDIR", "ENOENT"))

\* one call of one helper on a fresh response
FileNext ==
  \/ fileHelper = "none" /\ \E url \in StaticUrls : ServeStatic(url)
  \/ fileHelper = "none" /\ \E filePath \in RawPaths : RenderFile(filePath)
  \/ fileHelper = "none" /\ \E filePath \in RawPaths : Download(filePath)
  \/ fileHelper = "none" /\ \E filePath \in RawPaths : StreamFile(filePath)

FileSpec == Init /\ [][FileNext]_vars

\* the fixed base directory of a helper; download and streamFile name none,
\* their paths are taken from the working directory
BaseOf(helper) ==
  IF helper = "serveStatic" THEN safeBase
  ELSE IF helper = "renderFile" THEN VIEWS_PATH
  ELSE cwd

\* C23: every helper that accepts a file path hands a path to the file
\* system only if that path, resolved against the helper's base directory,
\* begins with the base directory followed by the path separator; a path in
\* a sibling directory whose name begins with the base's name is not read.
\* (The base directory itself, which is no file, is let through.)
C23_ReadsOnlyInsideBase ==
  \A path \in fileReads :
    \/ StartsWith(path, BaseOf(fileHelper) \o sep)
    \/ path = BaseOf(fileHelper)

\* C24: a request to the static file helper whose path leaves the base
\* directory through ".." segments, raw or percent-encoded, is rejected: no
\* path outside the base directory is handed to the file system and next is
\* not called.
Climbs(s) == \E i \in 1..(Len(s) - 1) : s[i] = "." /\ s[i + 1] = "."
LeavesBase(url) ==
  /\ StartsWith(url, StaticPrefix)
  /\ decodeURIComponent(Drop(url, Len(StaticPrefix))).ok
  /\ Climbs(decodeURIComponent(Drop(url, Len(StaticPrefix))).s)
  /\ resolve(<<PublicDir, decodeURIComponent(Drop(url, Len(StaticPrefix))).s>>) # safeBase
  /\ ~StartsWith(resolve(<<PublicDir, decodeURIComponent(Drop(url, Len(StaticPrefix))).s>>),
                 safeBase \o sep)
C24_TraversalRejected ==
  (fileHelper = "serveStatic" /\ LeavesBase(fileInput)) =>
    /\ fileReads = {}
    /\ fileOutcome # "next"

\* ------------------------------------------------------ compose
\* runMiddlewares and compose over middleware that await every call of next
\* they make, so that a call of next has run to its end when the caller goes
\* on.  A run is the events in their order and how it settled.
\*
\* What a middleware does in one invocation:
\*   pass       await next(); return
\*   stop       return
\*   throwPre   throw
\*   throwPost  await next(); throw
\*   again      await next(); await next(); return
\*   catch      try { await next() } catch { }; return
MaxComposed == 3
ComposeScripts == {"pass", "stop", "throwPre", "throwPost", "again", "catch"}
MemberIds == <<"m1", "m2", "m3", "m4", "m5">>

User(id, script) == [t |-> "user", id |-> id, script |-> script]
Members(scripts) == [i \in 1..Len(scripts) |-> User(MemberIds[i], scripts[i])]
\* compose(...middlewares), before it is called
compose(middlewares) == [t |-> "composed", members |-> middlewares]

\* the state of a run: the events so far and the index of every invocation
\* of a composed middleware
Settled(s, ok, message) == [s |-> s, ok |-> ok, message |-> message]
Fulfilled(s) == Settled(s, TRUE, "")
Emit(s, event) == [s EXCEPT !.trace = Append(@, event)]
Enter(s, mw) == Emit(s, <<"enter", mw.id>>)
Leave(s, mw) == Emit(s, <<"leave", mw.id>>)

\* let index = -1, and index = i
NewIndex(s) == [s EXCEPT !.index = Append(@, -1)]
SetIndex(s, cell, i) == [s EXCEPT !.index[cell] = i]

\* the functions passed as next
RunNextOf(index) == [k |-> "runNext", index |-> index]
DispatchOf(middlewares, i, cell, next) ==
  [k |-> "dispatch", middlewares |-> middlewares, i |-> i, cell |-> cell, next |-> next]

\* if (i <= index) throw new Error("next() called multiple times")
DispatchedBefore(i, index) == i <= index

\* the handler: "respond" returns, "throw" throws
HandlerRun(handler, s) ==
  IF handler = "throw" THEN Settled(Emit(s, <<"handler">>), FALSE, "handler")
  ELSE Fulfilled(Emit(s, <<"handler">>))

\* what follows await next() in the scripts
AfterNext(mw, r) == IF r.ok THEN Fulfilled(Leave(r.s, mw)) ELSE r
ThenThrow(mw, r) == IF r.ok THEN Settled(r.s, FALSE, mw.id) ELSE r
Caught(mw, r) ==
  IF r.ok THEN Fulfilled(Leave(r.s, mw))
  ELSE Fulfilled(Emit(r.s, <<"caught", mw.id, r.message>>))

RECURSIVE CallNext(_, _, _, _)
RECURSIVE Invoke(_, _, _, _, _)

Again(mw, next, r, middlewares, handler) ==
  IF r.ok THEN AfterNext(mw, CallNext(next, r.s, middlewares, handler)) ELSE r

\* next(), for next of runMiddlewares (runNext(index)) and of compose
\* (dispatch(i)); positions of runMiddlewares count from 1 here
CallNext(next, s, middlewares, handler) ==
  IF next.k = "runNext"
  THEN IF next.index <= Len(middlewares)
       THEN Invoke(middlewares[next.index], RunNextOf(next.index + 1), s, middlewares, handler)
       ELSE HandlerRun(handler, s)
  ELSE IF DispatchedBefore(next.i, s.index[next.cell])
       THEN Settled(s, FALSE, "next() called multiple times")
       ELSE IF next.i = Len(next.middlewares)
       THEN CallNext(next.next, SetIndex(s, next.cell, next.i), middlewares, handler)
       ELSE Invoke(next.middlewares[next.i + 1],
                   DispatchOf(next.middlewares, next.i + 1, next.cell, next.next),
                   SetIndex(s, next.cell, next.i), middlewares, handler)

\* middleware(ctx, next)
Invoke(mw, next, s, middlewares, handler) ==
  IF mw.t = "composed"
  THEN IF Len(mw.members) = 0 THEN CallNext(next, s, middlewares, handler)
       ELSE IF Len(mw.members) = 1 THEN Invoke(mw.members[1], next, s, middlewares, handler)
       ELSE CallNext(DispatchOf(mw.members, 0, Len(s.index) + 1, next), NewIndex(s),
                 middlewares, handler)
  ELSE CASE mw.script = "pass" ->
              AfterNext(mw, CallNext(next, Enter(s, mw), middlewares, handler))
         [] mw.script = "stop" -> Fulfilled(Enter(s, mw))
         [] mw.script = "throwPre" -> Settled(Enter(s, mw), FALSE, mw.id)
         [] mw.script = "throwPost" ->
              ThenThrow(mw, CallNext(next, Enter(s, mw), middlewares, handler))
         [] mw.script = "again" ->
              Again(mw, next, CallNext(next, Enter(s, mw), middlewares, handler),
                    middlewares, handler)
         [] OTHER -> Caught(mw, CallNext(next, Enter(s, mw), middlewares, handler))

RunOf(r) == [ran |-> TRUE, trace |-> r.s.trace, ok |-> r.ok, message |-> r.message]

\* runMiddlewares(ctx, middlewares, handler): await runNext(0)
runMiddlewares(middlewares, handler) ==
  RunOf(CallNext(RunNextOf(1), [trace |-> <<>>, index |-> <<>>], middlewares, handler))

\* the middleware around the composed ones
Around(id) == {<<>>, <<User(id, "pass")>>, <<User(id, "catch")>>}
ComposeInputs ==
  { [before |-> b, members |-> Members(scripts), after |-> a, handler |-> h] :
      b \in Around("before"), a \in Around("after"), h \in {"respond", "throw"},
      scripts \in UNION { [1..n -> ComposeScripts] : n \in 0..MaxComposed } }

\* the application builds its stack
ChooseStack(input) ==
  /\ composeStage = "idle"
  /\ composeStage' = "chosen"
  /\ composeInput' = input
  /\ UNCHANGED <<ComposeRest, inlineRun, composedRun>>

\* a request through the stack with the middleware listed inline
RunInline ==
  /\ composeStage = "chosen" /\ ~inlineRun.ran
  /\ inlineRun' = runMiddlewares(composeInput.before \o composeInput.members
                                   \o composeInput.after, composeInput.handler)
  /\ UNCHANGED <<ComposeRest, composeStage, composeInput, composedRun>>

\* a request through the stack with compose(...) of them in their place
RunComposed ==
  /\ composeStage = "chosen" /\ ~composedRun.ran
  /\ composedRun' = runMiddlewares(composeInput.before \o <<compose(composeInput.members)>>
                                     \o composeInput.after, composeInput.handler)
  /\ UNCHANGED <<ComposeRest, composeStage, composeInput, inlineRun>>

ComposeNext ==
  \/ composeStage = "idle" /\ \E input \in ComposeInputs : ChooseStack(input)
  \/ RunInline
  \/ RunComposed

ComposeSpec == Init /\ [][ComposeNext]_vars

\* C25: with compose(m1, ..., mn) in the place of m1, ..., mn, for every
\* n >= 0, a request runs the same steps in the same order before and after
\* next, stops short at the same place and settles with the same failure as
\* with the middleware listed inline.
C25_ComposeIsInline ==
  (inlineRun.ran /\ composedRun.ran) => composedRun = inlineRun

\* how often a step occurs in a run
Occurrences(events, event) == Cardinality({ i \in 1..Len(events) : events[i] = event })
Steps == { <<"enter", MemberIds[i]>> : i \in 1..Len(MemberIds) }
           \cup {<<"enter", "after">>, <<"handler">>}

\* C26: in a request through compose(m1, ..., mn), for every n >= 1, a
\* composed middleware that calls next a second time does not have what is
\* behind it run a second time: no step of the run occurs twice.
C26_SecondNextRejected ==
  composedRun.ran => \A step \in Steps : Occurrences(composedRun.trace, step) <= 1

\* ------------------------------------------------------ Context.cookie
\* The Set-Cookie header is undefined or the array last given to setHeader.
MaxCookies == 3

\* encodeURIComponent: letters, digits and - _ . ! ~ * ' ( ) stay, any other
\* character of Ascii becomes % and the two hex digits of its code
Unreserved ==
  Range(Uppers) \cup Range(Lowers) \cup Range(Digits)
    \cup {"-", "_", ".", "!", "~", "*", "'", "(", ")"}
AsciiCode(c) == 31 + (CHOOSE i \in 1..Len(Ascii) : Ascii[i] = c)
PercentEncoded(n) == <<"%", HexUpper[(n \div 16) + 1], HexUpper[(n % 16) + 1]>>
RECURSIVE encodeURIComponent(_)
encodeURIComponent(s) ==
  IF s = <<>> THEN <<>>
  ELSE (IF Head(s) \in Unreserved THEN <<Head(s)>> ELSE PercentEncoded(AsciiCode(Head(s))))
       \o encodeURIComponent(Tail(s))

\* the options of a call: maxAge -1 stands for none given, "" for no string
NoOptions ==
  [path |-> "", maxAge |-> -1, domain |-> "", secure |-> FALSE, httpOnly |-> FALSE,
   sameSite |-> ""]
\* [...].filter(Boolean): the attributes that are given, in their order
Attributes(options) ==
  <<<<"Path", IF options.path = "" THEN "/" ELSE options.path>>>>
  \o (IF options.maxAge # -1 THEN <<<<"Max-Age", options.maxAge>>>> ELSE <<>>)
  \o (IF options.domain # "" THEN <<<<"Domain", options.domain>>>> ELSE <<>>)
  \o (IF options.secure THEN <<<<"Secure">>>> ELSE <<>>)
  \o (IF options.httpOnly THEN <<<<"HttpOnly">>>> ELSE <<>>)
  \o (IF options.sameSite # "" THEN <<<<"SameSite", options.sameSite>>>> ELSE <<>>)

\* `${name}=${encodeURIComponent(value)}; ${opts}`, kept in its parts
CookieValue(name, value, options) ==
  [name |-> name, value |-> encodeURIComponent(value), opts |-> Attributes(options)]

\* a test that takes no header for an array
IsArrayNever(header) == FALSE
\* Array.isArray(this.res.getHeader("Set-Cookie"))
IsArray(header) == header.t = "array"

\* this.res.setHeader("Set-Cookie", ...)
SetHeader(header, cookie) ==
  IF IsArray(header) THEN [t |-> "array", xs |-> Append(header.xs, cookie)]
  ELSE [t |-> "array", xs |-> <<cookie>>]

\* ctx.cookie(name, value, options)
Cookie(name, value, options) ==
  /\ Len(cookieCalls) < MaxCookies
  /\ setCookie' = SetHeader(setCookie, CookieValue(name, value, options))
  /\ cookieCalls' = Append(cookieCalls, [name |-> name, value |-> value, options |-> options])
  /\ UNCHANGED CookieRest

CookieNames == {"sid", "theme"}
CookieValues == {<<"1">>, <<"a", " ", "b">>, <<"x", "=", ";">>}
CookieOptions ==
  { NoOptions, [NoOptions EXCEPT !.httpOnly = TRUE, !.maxAge = 0],
    [NoOptions EXCEPT !.path = "/app", !.sameSite = "Lax"] }

CookieNext ==
  \E name \in CookieNames, value \in CookieValues, options \in CookieOptions :
    Cookie(name, value, options)

CookieSpec == Init /\ [][CookieNext]_vars

HeaderValues == IF setCookie.t = "array" THEN setCookie.xs ELSE <<>>

\* C27: after n calls of Context.cookie on one response the Set-Cookie
\* header holds n values, the value of every call at the place of the call:
\* no call has removed or replaced a value set before it.
C27_CookiesAppend ==
  /\ Len(HeaderValues) = Len(cookieCalls)
  /\ \A i \in 1..Len(cookieCalls) :
       HeaderValues[i] = CookieValue(cookieCalls[i].name, cookieCalls[i].value,
                                     cookieCalls[i].options)
C27_Witness ==
  /\ Len(cookieCalls) = 3
  /\ cookieCalls[1].name = cookieCalls[3].name
  /\ cookieCalls[1].value # cookieCalls[3].value
  /\ Len(HeaderValues) = 3
  /\ HeaderValues[2].value = <<"a", "%", "2", "0", "b">>

\* ------------------------------------------------------ the rate limiter
\* One limiter, as the application creates it (src/src/index.ts 50), with a
\* limit of at least one request; time in units of the clock.
MaxLimit == 2       \* maxRequests is 1..MaxLimit
MaxWindow == 2      \* windowMs is 1..MaxWindow
MaxClock == 5       \* the clock stops here
MaxHits == 5        \* requests seen by the limiter

\* a request: its x-forwarded-for header and the address of its socket, ""
\* for none
RateRequests ==
  { [forwarded |-> "", remoteAddress |-> "10.0.0.1"],
    [forwarded |-> "203.0.113.1", remoteAddress |-> "10.0.0.1"],
    [forwarded |-> "", remoteAddress |-> ""] }

\* ctx.req.headers["x-forwarded-for"] || ctx.req.socket?.remoteAddress || "unknown"
ClientId(r) ==
  IF r.forwarded # "" THEN r.forwarded
  ELSE IF r.remoteAddress # "" THEN r.remoteAddress
  ELSE "unknown"

\* a comparison that lets one request more through
OverLimitByTwo(count, maxRequests) == count > maxRequests + 1
\* clientData.count > maxRequests
OverLimit(count, maxRequests) == count > maxRequests

\* a test that never finds the window ended
WindowEndedNever(clientData, now) == ~clientData.present
\* !clientData || now > clientData.resetTime
WindowEnded(clientData, now) == ~clientData.present \/ now > clientData.resetTime

\* requestCounts after the limiter has seen a request of clientId
Counted(clientId, clientData, now) ==
  IF WindowEnded(clientData, now)
  THEN [requestCounts EXCEPT ![clientId] =
          [present |-> TRUE, count |-> 1, resetTime |-> now + limiter.windowMs]]
  ELSE [requestCounts EXCEPT ![clientId].count = @ + 1]

\* how the middleware ends: it calls next or throws RateLimitError
Outcome(clientData, now) ==
  IF WindowEnded(clientData, now) THEN "next"
  ELSE IF OverLimit(clientData.count + 1, limiter.maxRequests) THEN "RateLimitError"
  ELSE "next"

\* the window, of length windowMs from the request that opened it, in which
\* a request at now lies, and the requests passed on in it
WindowOver(w, now) == w.open /\ now > w.from + limiter.windowMs
WindowAt(w, now, outcome) ==
  IF ~w.open \/ WindowOver(w, now)
  THEN [open |-> TRUE, from |-> now, passed |-> IF outcome = "next" THEN 1 ELSE 0]
  ELSE [w EXCEPT !.passed = IF outcome = "next" THEN @ + 1 ELSE @]

\* createRateLimiter(maxRequests, windowMs)
CreateRateLimiter(maxRequests, windowMs) ==
  /\ ~limiter.created
  /\ limiter' = [created |-> TRUE, maxRequests |-> maxRequests, windowMs |-> windowMs]
  /\ UNCHANGED <<RateRest, clock, requestCounts, seen, window, lastRequest>>

\* the middleware on a request, up to await next()
Limit(clientId) ==
  /\ limiter.created
  /\ seen < MaxHits
  /\ seen' = seen + 1
  /\ requestCounts' = Counted(clientId, requestCounts[clientId], clock)
  /\ window' = [window EXCEPT ![clientId] =
                  WindowAt(@, clock, Outcome(requestCounts[clientId], clock))]
  /\ lastRequest' = [lastRequest EXCEPT ![clientId] =
       [outcome |-> Outcome(requestCounts[clientId], clock),
        expired |-> WindowOver(window[clientId], clock),
        rejectedBefore |-> lastRequest[clientId].outcome = "RateLimitError",
        entryGone |-> ~requestCounts[clientId].present]]
  /\ UNCHANGED <<RateRest, limiter, clock>>

\* time passes
Tick ==
  /\ clock < MaxClock
  /\ clock' = clock + 1
  /\ UNCHANGED <<RateRest, limiter, requestCounts, seen, window, lastRequest>>

\* the callback of setInterval: the entries whose window has ended go
Cleanup ==
  /\ requestCounts' = [c \in ClientIds |->
       IF requestCounts[c].present /\ clock > requestCounts[c].resetTime
       THEN NoEntry ELSE requestCounts[c]]
  /\ UNCHANGED <<RateRest, limiter, clock, seen, window, lastRequest>>

RateNext ==
  \/ \E maxRequests \in 1..MaxLimit, windowMs \in 1..MaxWindow :
       CreateRateLimiter(maxRequests, windowMs)
  \/ \E r \in RateRequests : Limit(ClientId(r))
  \/ Tick
  \/ Cleanup

RateSpec == Init /\ [][RateNext]_vars

C29_NewWindowAfterExpiry ==
  [][ \A c \in ClientIds :
        (seen' = seen + 1 /\ lastRequest'[c] # lastRequest[c] /\ WindowOver(window[c], clock))
        => /\ lastRequest'[c].outcome = "next"
           /\ requestCounts'[c] =
                [present |-> TRUE, count |-> 1, resetTime |-> clock + limiter.windowMs]
           /\ window'[c] = [open |-> TRUE, from |-> clock, passed |-> 1] ]_vars
C29_Witness ==
  /\ lastRequest["10.0.0.1"] =
       [outcome |-> "next", expired |-> TRUE, rejectedBefore |-> TRUE, entryGone |-> TRUE]
  /\ lastRequest["unknown"] =
       [outcome |-> "next", expired |-> TRUE, rejectedBefore |-> FALSE, entryGone |-> FALSE]

\* ------------------------------------------------------ serve and shutdown
\* The server has two listeners of "request", called in the order they were
\* added: the one given to http.createServer (serve, lines 17 to 26), which
\* calls handleRequest, and the one of setupGracefulShutdown (lines 60 to 69).
\* handleRequest is seen from outside: it writes its response before it
\* first awaits, or later, when it is resumed.
RouterWrites == {"now", "later"}

\* res.writeHead / res.end by the router on a response
RouterWrote(c) ==
  IF c.status = 0 THEN [c EXCEPT !.status = 200, !.st = "done"]
  ELSE [c EXCEPT !.secondWrites = @ + 1, !.st = "done"]

\* the listener of createServer: handleRequest(req, res)
Dispatched(c, writes) ==
  IF writes = "now" THEN RouterWrote([c EXCEPT !.dispatched = TRUE])
  ELSE [c EXCEPT !.dispatched = TRUE, !.st = "pending"]

\* the listener of setupGracefulShutdown on a response not yet written
Rejected(c) == [c EXCEPT !.status = 503]

\* both listeners while shutting down, in their order
WhileShuttingDown(c, writes) == Rejected(Dispatched(c, writes))

\* the server emits "request"
RequestEvent(r, writes) ==
  /\ exited = ""
  /\ served[r].st = "none"
  /\ IF shuttingDown
     THEN IF Dispatched(served[r], writes).status # 0
          \* res.setHeader after the response was sent throws in the listener
          THEN /\ served' = [served EXCEPT ![r] =
                               Dispatched([served[r] EXCEPT !.afterSignal = TRUE], writes)]
               /\ exited' = "uncaughtException"
               /\ UNCHANGED activeRequests
          ELSE /\ served' = [served EXCEPT ![r] =
                               WhileShuttingDown([served[r] EXCEPT !.afterSignal = TRUE], writes)]
               /\ UNCHANGED <<activeRequests, exited>>
     ELSE /\ served' = [served EXCEPT ![r] =
                          [Dispatched(served[r], writes) EXCEPT !.counted = (writes = "later")]]
          \* activeRequests++, and the "finish" of a response sent at once
          /\ activeRequests' = IF writes = "later" THEN activeRequests + 1 ELSE activeRequests
          /\ UNCHANGED exited
  /\ UNCHANGED <<ServeRest, shuttingDown, cleanup>>

\* handleRequest goes on and writes its response; "finish" of a counted one
RouterResume(r) ==
  /\ exited = ""
  /\ served[r].st = "pending"
  /\ served' = [served EXCEPT ![r] = [RouterWrote(served[r]) EXCEPT !.counted = FALSE]]
  /\ activeRequests' = IF served[r].counted THEN activeRequests - 1 ELSE activeRequests
  /\ UNCHANGED <<ServeRest, shuttingDown, exited, cleanup>>

\* What opts.onShutdown does: there is none, it settles (resolved or
\* rejected, the rejection is caught), or its promise never settles.
CleanupKinds == {"none", "settles", "hangs"}

\* SIGTERM or SIGINT: shutdown(), up to await opts.onShutdown() if there is
\* one, else up to the first check
Signal(onShutdown) ==
  /\ exited = ""
  /\ ~shuttingDown
  /\ shuttingDown' = TRUE
  /\ IF onShutdown = "none"
     THEN /\ cleanup' = "over"
          /\ exited' = IF activeRequests = 0 THEN "exit 0" ELSE ""
     ELSE /\ cleanup' = IF onShutdown = "settles" THEN "running" ELSE "hangs"
          /\ UNCHANGED exited
  /\ UNCHANGED <<ServeRest, activeRequests, served>>

\* opts.onShutdown() has settled: server.close, the first check, and the
\* timer of the forced exit is set
CleanupSettled ==
  /\ exited = ""
  /\ cleanup = "running"
  /\ cleanup' = "over"
  /\ exited' = IF activeRequests = 0 THEN "exit 0" ELSE ""
  /\ UNCHANGED <<ServeRest, shuttingDown, activeRequests, served>>

\* setTimeout(check, 100)
Check ==
  /\ exited = "" /\ cleanup = "over"
  /\ activeRequests = 0
  /\ exited' = "exit 0"
  /\ UNCHANGED <<ServeRest, shuttingDown, activeRequests, cleanup, served>>

\* setTimeout(() => process.exit(1), timeoutMs)
ForcedExit ==
  /\ exited = "" /\ cleanup = "over"
  /\ exited' = "exit 1"
  /\ UNCHANGED <<ServeRest, shuttingDown, activeRequests, cleanup, served>>

ServeNext ==
  \/ \E r \in ServedIds, writes \in RouterWrites : RequestEvent(r, writes)
  \/ \E r \in ServedIds : RouterResume(r)
  \/ \E onShutdown \in CleanupKinds : Signal(onShutdown)
  \/ CleanupSettled
  \/ Check
  \/ ForcedExit

ServeSpec == Init /\ [][ServeNext]_vars

\* C30: a request received after the shutdown signal is answered with 503,
\* is not dispatched to the router, and has no second response written.
C30_RejectedWhileShuttingDown ==
  \A r \in ServedIds :
    served[r].afterSignal =>
      /\ served[r].status = 503
      /\ ~served[r].dispatched
      /\ served[r].secondWrites = 0

\* A cleanup callback that settles does so in the end, and a timer that is
\* set fires.
ServeLive ==
  ServeSpec /\ WF_vars(CleanupSettled) /\ WF_vars(Check) /\ WF_vars(ForcedExit)

\* C31: after a shutdown signal the process exits in the end, whatever the
\* active requests and the cleanup callback do.
C31_ShutdownExits == shuttingDown ~> (exited # "")

\* ------------------------------------------------------ cache
\* Times are in ms and pass in steps of one second.
MaxTtl == 2         \* ttlSeconds is 1..MaxTtl
MaxCacheClock == 2  \* seconds until the clock stops

\* entry && now - entry.timestamp < entry.ttl
Fresh(entry, now) == entry.present /\ now - entry.timestamp < entry.ttl

CacheControl(seconds) == <<"Cache-Control", "public, max-age=", seconds>>

\* what the chain behind the cache does with the response:
\*   setHeader  res.statusCode = ..; res.setHeader(..); res.end(chunk)   (ctx.json)
\*   writeHead  res.writeHead(status, headers); res.end(chunk)           (ctx.redirect)
\*   write      res.statusCode = ..; res.write(chunk); res.end(chunk)
DownstreamStyles == {"setHeader", "writeHead", "write"}
StatusCodes == {200, 404}
Chunks == {<<>>, <<"x">>}
ContentType == <<"content-type", "text/plain">>

\* ctx.res.getHeaders() when end is called: what setHeader was given
GetHeaders(style) == IF style = "writeHead" THEN {} ELSE {ContentType}
\* the chunks pushed by the wrappers of write and end: if (chunk) ...
PushedChunks(style, written, chunk) == (IF style = "write" THEN written ELSE <<>>) \o chunk
\* the header block has gone out before end is called
HeadersSentBeforeEnd(style) == style # "setHeader"

\* cache(ttlSeconds)
CreateCache(ttlSeconds) ==
  /\ cacheTtl = 0
  /\ cacheTtl' = ttlSeconds
  /\ UNCHANGED <<CacheRest, cacheNow, cacheStore, cached>>

\* the middleware on a request, up to await next()
CacheRequest(r, key) ==
  /\ cacheTtl # 0
  /\ cached[r].st = "none"
  /\ \A earlier \in 1..(r - 1) : cached[earlier].st # "none"
  /\ cached' = [cached EXCEPT ![r] =
       IF Fresh(cacheStore[key], cacheNow)
       THEN [st |-> "done", key |-> key, now |-> cacheNow, fromCache |-> TRUE, nexts |-> 0,
             statusCode |-> cacheStore[key].statusCode,
             headers |-> cacheStore[key].headers
                           \cup {CacheControl(cacheStore[key].ttl \div 1000)},
             body |-> cacheStore[key].body, ended |-> TRUE]
       ELSE [NotCached EXCEPT !.st = "pending", !.key = key, !.now = cacheNow, !.nexts = 1]]
  /\ UNCHANGED <<CacheRest, cacheTtl, cacheNow, cacheStore>>

\* the chain ends the response: the wrapper of ctx.res.end stores the entry,
\* sets Cache-Control (which throws when the header block has gone out) and
\* calls the original end
DownstreamEnds(r, style, statusCode, written, chunk) ==
  /\ cached[r].st = "pending"
  /\ style # "write" => written = <<>>
  /\ cacheStore' = [cacheStore EXCEPT ![cached[r].key] =
       [present |-> TRUE, timestamp |-> cached[r].now, ttl |-> cacheTtl * 1000,
        statusCode |-> statusCode, headers |-> GetHeaders(style),
        body |-> PushedChunks(style, written, chunk)]]
  /\ cached' = [cached EXCEPT ![r] =
       [@ EXCEPT !.st = "done", !.statusCode = statusCode,
                 !.headers = IF HeadersSentBeforeEnd(style) THEN {ContentType}
                             ELSE {ContentType, CacheControl(cacheTtl)},
                 !.body = PushedChunks(style, written, chunk),
                 !.ended = ~HeadersSentBeforeEnd(style)]]
  /\ UNCHANGED <<CacheRest, cacheTtl, cacheNow>>

\* a second passes
CacheTick ==
  /\ cacheNow < MaxCacheClock * 1000
  /\ cacheNow' = cacheNow + 1000
  /\ UNCHANGED <<CacheRest, cacheTtl, cacheStore, cached>>

\* the callback of setInterval: the expired entries go
CacheCleanup ==
  /\ cacheStore' = [k \in CacheKeys |->
       IF cacheStore[k].present /\ cacheNow - cacheStore[k].timestamp >= cacheStore[k].ttl
       THEN NoCacheEntry ELSE cacheStore[k]]
  /\ UNCHANGED <<CacheRest, cacheTtl, cacheNow, cached>>

CacheNext ==
  \/ \E ttlSeconds \in 1..MaxTtl : CreateCache(ttlSeconds)
  \/ \E r \in CachedIds, key \in CacheKeys : CacheRequest(r, key)
  \/ \E r \in CachedIds, style \in DownstreamStyles, statusCode \in StatusCodes,
        written \in Chunks, chunk \in Chunks :
       DownstreamEnds(r, style, statusCode, written, chunk)
  \/ CacheTick
  \/ CacheCleanup

CacheSpec == Init /\ [][CacheNext]_vars

\* a stored entry younger than its TTL
Younger(entry, now) == entry.present /\ now < entry.timestamp + entry.ttl

\* C32: a request whose key has a stored entry younger than its TTL is
\* answered from the stored status, headers and body and next is not called;
\* a request with no entry or an expired one calls next once, and the
\* status, headers and body the response has when the chain ends it are
\* stored under the key.
C32_CachedOrStored ==
  [][ \A r \in CachedIds :
        /\ (cached[r].st = "none" /\ cached'[r].st # "none") =>
             IF Younger(cacheStore[cached'[r].key], cacheNow)
             THEN /\ cached'[r].nexts = 0
                  /\ cached'[r].ended
                  /\ cached'[r].statusCode = cacheStore[cached'[r].key].statusCode
                  /\ cacheStore[cached'[r].key].headers \subseteq cached'[r].headers
                  /\ cached'[r].body = cacheStore[cached'[r].key].body
             ELSE cached'[r].nexts = 1 /\ cached'[r].st = "pending"
        /\ (cached[r].st = "pending" /\ cached'[r].st = "done") =>
             /\ cached'[r].nexts = 1
             /\ cacheStore'[cached[r].key].present
             /\ cacheStore'[cached[r].key].statusCode = cached'[r].statusCode
             /\ cached'[r].headers \subseteq
                  cacheStore'[cached[r].key].headers \cup {CacheControl(cacheTtl)}
             /\ cacheStore'[cached[r].key].body = cached'[r].body ]_vars

\* ------------------------------------------------------ bodyParserMiddleware
\* Lengths are in MB. A chunk is its length and its text; the text is one
\* JSON token, the rest of the length being white space.
DEFAULT_SIZE_LIMIT == 10
MaxChunks == 3      \* data events of a request
ChunkLengths == {4, 6, 11}
ChunkTexts == {"{", "}", "x"}
BodyChunks == [length : ChunkLengths, text : ChunkTexts]
BodyMethods == {"GET", "POST"}
ContentTypes ==
  {"", "application/json", "application/x-www-form-urlencoded", "multipart/form-data"}
\* what the chain behind the parser does when next is called
Downstreams == {"responds", "throws", "silent"}

\* ["POST", "PUT", "PATCH"].includes(method)
HasBody(method) == method \in {"POST", "PUT", "PATCH"}
\* JSON.parse(rawBody) returns: only "{" "}" is a JSON text here
JsonParses(raw) == raw = <<"{", "}">>
\* the try block up to next(): querystring.parse takes any text
Parses(contentType, raw) == contentType = "application/json" => JsonParses(raw)

\* ctx.status(code).json(..): res.statusCode is assigned, then setHeader
\* throws when the header block has gone out
Json(out, code) ==
  IF out.writes # <<>>
  THEN [out EXCEPT !.statusCode = code]
  ELSE [out EXCEPT !.statusCode = code, !.writes = <<code>>]
JsonThrows(out) == out.writes # <<>>
\* resolve() and reject() settle a pending promise only
SettlePromise(out, how) == IF out.promise = "pending" THEN [out EXCEPT !.promise = how] ELSE out

\* next(): the chain behind the parser runs; it answers with ctx.json
NextCalled(out, downstream) ==
  LET called == [out EXCEPT !.nexts = @ + 1] IN
  CASE downstream = "throws" -> [called EXCEPT !.nextThrew = TRUE]
    [] downstream = "silent" -> called
    [] OTHER -> IF JsonThrows(called) THEN [Json(called, 200) EXCEPT !.nextThrew = TRUE]
                ELSE Json(called, 200)

\* bodyParserMiddleware(ctx, next) up to its return
ParseStart(method, contentType, downstream) ==
  /\ parser.st = "none"
  /\ IF ~HasBody(method) \/ contentType = "" \/ contentType = "multipart/form-data"
     THEN /\ parser' = [st |-> "skipped", method |-> method, contentType |-> contentType,
                        downstream |-> downstream]
          /\ parsed' = LET run == NextCalled(parsed, downstream) IN
                       [run EXCEPT !.promise = IF run.nextThrew THEN "rejected" ELSE "resolved"]
     ELSE /\ parser' = [st |-> "listening", method |-> method, contentType |-> contentType,
                        downstream |-> downstream]
          /\ parsed' = [parsed EXCEPT !.promise = "pending"]
  /\ UNCHANGED <<BodyRest, rawBody, size, exceededLimit>>

\* req.on("data", ..)
OnData(chunk) ==
  /\ parser.st = "listening"
  /\ parsed.dataEvents < MaxChunks
  /\ IF exceededLimit
     THEN /\ parsed' = [parsed EXCEPT !.dataEvents = @ + 1]
          /\ UNCHANGED <<rawBody, size, exceededLimit>>
     ELSE /\ size' = size + chunk.length
          /\ IF size' > DEFAULT_SIZE_LIMIT
             THEN /\ exceededLimit' = TRUE
                  /\ parsed' = [SettlePromise(Json(parsed, 413), "resolved")
                                  EXCEPT !.dataEvents = @ + 1]
                  /\ UNCHANGED rawBody
             ELSE /\ rawBody' = Append(rawBody, chunk.text)
                  /\ parsed' = [parsed EXCEPT !.dataEvents = @ + 1]
                  /\ UNCHANGED exceededLimit
  /\ UNCHANGED <<BodyRest, parser>>

\* the catch block of the end listener
Caught400(out) ==
  IF JsonThrows(out) THEN [Json(out, 400) EXCEPT !.unhandled = TRUE]
  ELSE SettlePromise(Json(out, 400), "resolved")

\* req.on("end", ..), with the chain behind next run to its end
OnEnd ==
  /\ parser.st = "listening"
  /\ parser' = [parser EXCEPT !.st = "ended"]
  /\ parsed' =
       IF Parses(parser.contentType, rawBody)
       THEN LET run == NextCalled(
                         [parsed EXCEPT !.parse = "parsed",
                            !.body = "object"],
                         parser.downstream) IN
            IF run.nextThrew THEN Caught400(run) ELSE SettlePromise(run, "resolved")
       ELSE Caught400([parsed EXCEPT !.parse = "failed"])
  /\ UNCHANGED <<BodyRest, rawBody, size, exceededLimit>>

\* req.on("error", reject)
OnError ==
  /\ parser.st = "listening"
  /\ parser' = [parser EXCEPT !.st = "errored"]
  /\ parsed' = SettlePromise(parsed, "rejected")
  /\ UNCHANGED <<BodyRest, rawBody, size, exceededLimit>>

BodyNext ==
  \/ \E method \in BodyMethods, contentType \in ContentTypes, downstream \in Downstreams :
       ParseStart(method, contentType, downstream)
  \/ \E chunk \in BodyChunks : OnData(chunk)
  \/ OnEnd
  \/ OnError

BodySpec == Init /\ [][BodyNext]_vars

\* C33: once the lengths of the chunks received exceed the limit, the request
\* has been answered with 413 exactly once and next is never called for it,
\* whatever data and end events follow.
C33_TooLargeAnsweredOnce ==
  exceededLimit => parsed.writes = <<413>> /\ parsed.nexts = 0

\* C38: the parser answers 400 only when parsing failed; when the body parsed
\* and the chain behind next failed, no 400 is written and the promise of the
\* parser is rejected.
C38_NextFailurePropagates ==
  /\ parsed.statusCode = 400 => parsed.parse = "failed"
  /\ (parsed.parse = "parsed" /\ parsed.nextThrew) => parsed.promise = "rejected"

\* ------------------------------------------------------ createCSRFMiddleware
\* The middleware with its default options. A token is a string of hex
\* digits; randomBytes(tokenLength) gives tokenLength bytes.
tokenLength == 1
\* randomBytes(tokenLength).toString("hex"): two hex digits a byte
RandomTokens == {<<"0", "a">>, <<"a", "0">>}
\* ctx.cookies[cookieName] and ctx.req.headers[headerName]: undefined or a string
TokenStrings == {<<>>, <<"0">>} \cup RandomTokens
TokenValues == {Undefined} \cup { StringValue(s) : s \in TokenStrings }
CsrfMethods == {"GET", "HEAD", "OPTIONS", "POST", "DELETE", "post"}
cookieName == "csrf-token"
ignoreMethods == {"GET", "HEAD", "OPTIONS"}
cookieOptions == [NoOptions EXCEPT !.httpOnly = TRUE, !.sameSite = "Strict", !.path = "/"]

\* method.toUpperCase()
ToUpperCase(method) == IF method = "post" THEN "POST" ELSE method
\* !token is false
Present(token) == token.t = "string" /\ token.s # <<>>

\* a ^ b and a | b on the bits of two char codes
RECURSIVE BitXor(_, _)
BitXor(a, b) ==
  IF a = 0 /\ b = 0 THEN 0
  ELSE (((a % 2) + (b % 2)) % 2) + 2 * BitXor(a \div 2, b \div 2)
RECURSIVE BitOr(_, _)
BitOr(a, b) ==
  IF a = 0 /\ b = 0 THEN 0
  ELSE (IF (a % 2) = 1 \/ (b % 2) = 1 THEN 1 ELSE 0) + 2 * BitOr(a \div 2, b \div 2)
\* the loop of timingSafeEqual: result |= a.charCodeAt(i) ^ b.charCodeAt(i)
RECURSIVE XorLoop(_, _, _, _)
XorLoop(a, b, i, result) ==
  IF i > Len(a) THEN result
  ELSE XorLoop(a, b, i + 1, BitOr(result, BitXor(AsciiCode(a[i]), AsciiCode(b[i]))))

\* a comparison of the lengths alone
SameLength(a, b) == Len(a) = Len(b)
timingSafeEqual(a, b) == IF Len(a) # Len(b) THEN FALSE ELSE XorLoop(a, b, 1, 0) = 0

\* ctx.status(403).json(..); return
Forbidden(r, method, cookieToken, headerToken) ==
  [NotChecked EXCEPT !.st = "done", !.method = method, !.cookieToken = cookieToken,
     !.headerToken = headerToken, !.statusCode = 403, !.writes = <<403>>]

\* the middleware on a request with the response not started
CsrfRequest(r, rawMethod, cookieToken, headerToken, token) ==
  /\ csrfChecked[r].st = "none"
  /\ \A earlier \in 1..(r - 1) : csrfChecked[earlier].st # "none"
  /\ csrfChecked' = [csrfChecked EXCEPT ![r] =
       IF ToUpperCase(rawMethod) \in ignoreMethods
       THEN [NotChecked EXCEPT !.st = "done", !.method = rawMethod,
               !.cookieToken = cookieToken, !.headerToken = headerToken,
               !.generated = StringValue(token),
               !.cookieSet = SetHeader(NoHeader, CookieValue(cookieName, token, cookieOptions)),
               !.csrfToken = StringValue(token), !.nexts = 1]
       ELSE IF ~Present(cookieToken) THEN Forbidden(r, rawMethod, cookieToken, headerToken)
       ELSE IF ~Present(headerToken) THEN Forbidden(r, rawMethod, cookieToken, headerToken)
       ELSE IF ~timingSafeEqual(cookieToken.s, headerToken.s)
            THEN Forbidden(r, rawMethod, cookieToken, headerToken)
       ELSE [NotChecked EXCEPT !.st = "done", !.method = rawMethod,
               !.cookieToken = cookieToken, !.headerToken = headerToken,
               !.csrfToken = cookieToken, !.nexts = 1]]
  /\ UNCHANGED CsrfRest

CsrfNext ==
  \E r \in CsrfIds, rawMethod \in CsrfMethods, cookieToken \in TokenValues,
     headerToken \in TokenValues, token \in RandomTokens :
    CsrfRequest(r, rawMethod, cookieToken, headerToken, token)

CsrfSpec == Init /\ [][CsrfNext]_vars

SafeMethods == {"GET", "HEAD", "OPTIONS"}
\* the Set-Cookie header holds the one cookie csrf-token=<token>
CookieCarries(header, token) ==
  /\ header.t = "array" /\ Len(header.xs) = 1
  /\ header.xs[1].name = "csrf-token" /\ header.xs[1].value = token

\* C34: a request with a safe method goes on to next with the token generated
\* for it set as cookie and on ctx.csrfToken; a request with another method
\* goes on to next only when its cookie token and header token are both
\* present and equal, and is otherwise answered 403 without a call of next.
C34_CsrfGate ==
  \A r \in CsrfIds : csrfChecked[r].st = "done" =>
    LET c == csrfChecked[r] IN
    IF c.method \in SafeMethods
    THEN /\ c.nexts = 1 /\ c.writes = <<>>
         /\ c.generated.t = "string" /\ c.csrfToken = c.generated
         /\ CookieCarries(c.cookieSet, c.generated.s)
    ELSE IF /\ c.cookieToken.t = "string" /\ c.headerToken.t = "string"
            /\ c.cookieToken.s # <<>> /\ c.cookieToken = c.headerToken
         THEN c.nexts = 1 /\ c.writes = <<>>
         ELSE c.nexts = 0 /\ c.writes = <<403>>
C34_Witness ==
  /\ csrfChecked[1].st = "done" /\ csrfChecked[1].method = "GET"
  /\ csrfChecked[1].generated = StringValue(<<"a", "0">>)
  /\ csrfChecked[1].cookieToken = StringValue(<<"0", "a">>)
  /\ csrfChecked[2].method = "POST" /\ csrfChecked[2].nexts = 1
  /\ csrfChecked[2].cookieToken = csrfChecked[1].generated

\* ------------------------------------------------------ errorHandlerMiddleware, handleError
\* What the chain behind the error handler can throw: an object with the
\* fields handleError reads, or the value undefined (throw undefined, or a
\* promise rejected without a reason).
Thrown(class, statusCode, code, name, message) ==
  [thrown |-> "object", class |-> class, statusCode |-> statusCode, code |-> code,
   name |-> name, message |-> message]
Failures ==
  { Thrown("AppError", 408, "", "Error", <<"Request", "timeout">>),
    Thrown("RateLimitError", 429, "", "Error", <<"Too", "many", "requests">>),
    Thrown("ValidationError", 400, "", "Error", <<"Invalid", "JSON">>),
    Thrown("Error", 0, "", "Error", <<"boom">>),
    Thrown("Error", 0, "ENOENT", "Error", <<"no", "such", "file">>),
    Thrown("Error", 0, "ECONNREFUSED", "Error", <<"connect">>),
    Thrown("SyntaxError", 0, "", "SyntaxError", <<"Unexpected", "token", "in", "JSON">>),
    Thrown("SyntaxError", 0, "", "SyntaxError", <<"Invalid", "regular", "expression">>),
    [thrown |-> "undefined"] }
NodeEnvs == {"production", "development"}

\* err instanceof AppError
InstanceOfAppError(err) ==
  err.thrown = "object" /\ err.class \in {"AppError", "RateLimitError", "ValidationError"}
\* err.message.includes("JSON")
Includes(message, word) == \E i \in 1..Len(message) : message[i] = word
\* the read of a property of err throws a TypeError when err is undefined
TypeError == "TypeError"

\* logError: both branches read err.message
logError(err) == IF err.thrown = "undefined" THEN TypeError ELSE "logged"

\* the chain of tests of handleError that picks the status
StatusOf(err) ==
  IF InstanceOfAppError(err) THEN err.statusCode
  ELSE IF err.code = "ENOENT" THEN 404
  ELSE IF err.name = "SyntaxError" /\ Includes(err.message, "JSON") THEN 400
  ELSE IF err.code = "ECONNREFUSED" THEN 503
  ELSE 500
MessageOf(err) ==
  IF InstanceOfAppError(err) THEN "err.message"
  ELSE IF err.code = "ENOENT" THEN "Resource not found"
  ELSE IF err.name = "SyntaxError" /\ Includes(err.message, "JSON") THEN "Invalid JSON format"
  ELSE IF err.code = "ECONNREFUSED" THEN "Service temporarily unavailable"
  ELSE "Internal Server Error"

\* handleError(err, ctx) on the record of a request
handleError(h, err) ==
  IF h.response.status # 0 THEN h
  ELSE [h EXCEPT !.response = [status |-> StatusOf(err), body |-> MessageOf(err)],
                 !.writes = Append(@, StatusOf(err))]

\* errorHandlerMiddleware is entered and awaits next()
ErrorHandlerCalled(r, env) ==
  /\ handled[r].st = "none"
  /\ \A earlier \in 1..(r - 1) : handled[earlier].st # "none"
  /\ handled' = [handled EXCEPT ![r] = [@ EXCEPT !.st = "awaiting", !.env = env]]
  /\ UNCHANGED ErrorRest

\* the chain behind it returns, having answered
DownstreamReturns(r) ==
  /\ handled[r].st = "awaiting"
  /\ handled' = [handled EXCEPT ![r] =
       [@ EXCEPT !.st = "done", !.response = [status |-> 200, body |-> "ok"]]]
  /\ UNCHANGED ErrorRest

\* the chain behind it fails, before or after the header block went out:
\* the catch block runs logError and handleError
DownstreamFails(r, err, sent) ==
  /\ handled[r].st = "awaiting"
  /\ handled' = [handled EXCEPT ![r] =
       LET failed == [@ EXCEPT !.failure = err, !.sentBefore = sent,
                        !.response = IF sent THEN [status |-> 200, body |-> "ok"] ELSE @]
       IN IF logError(err) = TypeError
          THEN [failed EXCEPT !.st = "rethrown", !.logged = TypeError, !.rethrown = TypeError]
          ELSE [handleError(failed, err) EXCEPT !.st = "done", !.logged = "logged"]]
  /\ UNCHANGED ErrorRest

\* the catch block of Router.handle, reached by what the error handler lets out
RouterCatch(r) ==
  /\ handled[r].st = "rethrown"
  /\ handled' = [handled EXCEPT ![r] =
       [@ EXCEPT !.st = "done", !.fallback = TRUE, !.response = CatchWrite(@)]]
  /\ UNCHANGED ErrorRest

ErrorNext ==
  \/ \E r \in FailedIds, env \in NodeEnvs : ErrorHandlerCalled(r, env)
  \/ \E r \in FailedIds : DownstreamReturns(r)
  \/ \E r \in FailedIds, err \in Failures, sent \in BOOLEAN : DownstreamFails(r, err, sent)
  \/ \E r \in FailedIds : RouterCatch(r)

ErrorSpec == Init /\ [][ErrorNext]_vars

\* the request's chain failed and the catch block has run
FailureHandled(r) == handled[r].failure.thrown # "none"

\* C35: on a failure of the chain the error handler writes one response, with
\* the statusCode of an AppError and 500 for any other failure, or nothing when
\* the header block had gone out; it lets no failure out, and the 500 fallback
\* of the router does not run.
C35_OneErrorResponse ==
  \A r \in FailedIds : FailureHandled(r) =>
    /\ handled[r].writes =
         IF handled[r].sentBefore THEN <<>>
         ELSE IF InstanceOfAppError(handled[r].failure)
              THEN <<handled[r].failure.statusCode>> ELSE <<500>>
    /\ handled[r].rethrown = "" /\ ~handled[r].fallback

\* ------------------------------------------------------ the empty wildcard
FilesNoSlash == <<"/", "f", "i", "l", "e", "s">>

\* C39: with /files/* the only route, a GET of /files/ resolves to the route
\* with a params map that has no wildcard key, and a GET of /files resolves to
\* no route and is answered 404.
C39_EmptyWildcard ==
  (Answered /\ GetRequest /\ OnlyRoute(FilesWildcard)) =>
    /\ ReqPath = FilesSlash =>
         /\ matchResult.route = 1
         /\ WildcardKey \notin Keys(matchResult.params)
    /\ ReqPath = FilesNoSlash =>
         /\ matchResult.route = 0
         /\ response = RouteNotFound
C39_Witness ==
  /\ Answered /\ GetRequest /\ OnlyRoute(FilesWildcard)
  /\ req.url = FilesSlash
  /\ <<WildcardKey, <<>>>> \in Participating
  /\ matchResult = [route |-> 1, params |-> {}]

\* ------------------------------------------------------ the route table over time
\* Routes are registered at any time, also between and after lookups, and
\* the table is read through getRoutes.
MaxLater == 3       \* routes registered
TablePatterns == {UsersId, UsersMe, FilesWildcard, UsersIdUnclosed}
TableMethods == {"GET", "POST"}
TableRequests ==
  { [method |-> "GET", url |-> UsersMe],
    [method |-> "GET", url |-> FilesSlash \o <<"a">>],
    [method |-> "GET", url |-> FilesSlash],
    [method |-> "POST", url |-> UsersMe],
    [method |-> "GET", url |-> <<"/", "/">>] }

\* Router.addRoute, whatever requests are in flight
Register(method, path) ==
  /\ Len(routes) < MaxLater
  /\ Pushed(method, path, compileRoute(path))
  /\ UNCHANGED <<phase, globalMiddlewares, req, ctxParams, runVars, resVars, histVars,
                 matchResult, ctxVars, moreVars>>

\* Router.handle up to the lookup, on the table as it is now
Lookup(r) ==
  /\ phase' = "resolved"
  /\ req' = r
  /\ IF ParseUrl(r.url).ok
     THEN /\ matchResult' = matchRoute(routes, r.method, r.url)
          /\ thrown' = ""
          /\ response' = IF matchResult'.route = 0 THEN RouteNotFound ELSE NoResponse
     ELSE /\ thrown' = "TypeError"
          /\ response' = InternalServerError
          /\ matchResult' = NoMatchResult
  /\ UNCHANGED <<cfgVars, ctxParams, runVars, extraWrites, histVars, ctxVars, moreVars>>

\* getRoutes(): return [...this.routes]
GetRoutes ==
  /\ listed' = routes
  /\ UNCHANGED TableRest

\* what the caller of getRoutes does to the array it got
Reversed(s) == [i \in 1..Len(s) |-> s[Len(s) + 1 - i]]
CallerEdits(edit) ==
  /\ listed # <<>>
  /\ listed' = CASE edit = "shift" -> Tail(listed)
                 [] edit = "reverse" -> Reversed(listed)
                 [] OTHER -> <<>>
  /\ listed' # listed
  /\ UNCHANGED TableRest

TableNext ==
  \/ \E method \in TableMethods, path \in TablePatterns : Register(method, path)
  \/ \E r \in TableRequests : Lookup(r)
  \/ GetRoutes
  \/ \E edit \in {"shift", "reverse", "clear"} : CallerEdits(edit)

TableSpec == Init /\ [][TableNext]_vars

\* C36: no step removes or reorders the routes registered, and a request
\* that resolved to a route resolves to the same route with the same params
\* on the table after any step, a registration included.
C36_TableAppendOnly ==
  [][ /\ Len(routes') >= Len(routes)
      /\ SubSeq(routes', 1, Len(routes)) = routes
      /\ (phase = "resolved" /\ matchResult.route # 0) =>
           matchRoute(routes', req.method, req.url) = matchResult ]_vars
C36_Witness ==
  /\ Len(routes) = 3
  /\ routes[1].path = UsersId /\ routes[2].path = UsersMe /\ routes[3].path = FilesWildcard
  /\ routes[1].method = "GET" /\ routes[2].method = "GET"
  /\ req = [method |-> "GET", url |-> UsersMe]
  /\ matchResult.route = 1
  /\ Len(listed) = 1 /\ listed[1].path = UsersMe

\* ------------------------------------------------------ two rate limiters
\* Two calls of createRateLimiter in one process: the closures differ in
\* maxRequests and windowMs, the Map requestCounts is the one of the module.
MaxPairClock == 2   \* the clock stops here
MaxPairHits == 4    \* requests a limiter of the pair sees
PairClients == {"10.0.0.1", "unknown"}
\* the variables of the single limiter, and the others, left alone here
PairOthers ==
  <<baseVars, queryVars, fileVars, composeVars, cookieVars, serveVars, cacheVars, bodyVars,
    csrfVars, errorVars, tableVars, limiter, window, lastRequest>>

\* the table after a limiter of the given window has seen a request
CountedIn(table, clientId, now, windowMs) ==
  IF WindowEnded(table[clientId], now)
  THEN [table EXCEPT ![clientId] =
          [present |-> TRUE, count |-> 1, resetTime |-> now + windowMs]]
  ELSE [table EXCEPT ![clientId].count = @ + 1]
\* how a limiter of the given limit ends on the entry it finds
OutcomeOf(clientData, now, maxRequests) ==
  IF WindowEnded(clientData, now) THEN "next"
  ELSE IF OverLimit(clientData.count + 1, maxRequests) THEN "RateLimitError"
  ELSE "next"

\* createRateLimiter(maxRequests, windowMs), once for each limiter
CreateLimiter(l, maxRequests, windowMs) ==
  /\ ~limiters[l].created
  /\ limiters' = [limiters EXCEPT ![l] =
                    [created |-> TRUE, maxRequests |-> maxRequests, windowMs |-> windowMs]]
  /\ UNCHANGED <<PairOthers, clock, requestCounts, seen, ownCounts, through>>

\* the middleware of limiter l on a request, up to await next()
LimitBy(l, clientId) ==
  /\ limiters[l].created
  /\ seen < MaxPairHits
  /\ seen' = seen + 1
  /\ requestCounts' = CountedIn(requestCounts, clientId, clock, limiters[l].windowMs)
  /\ ownCounts' = [ownCounts EXCEPT ![l] =
                     CountedIn(@, clientId, clock, limiters[l].windowMs)]
  /\ through' = [through EXCEPT ![l] =
       [outcome |-> OutcomeOf(requestCounts[clientId], clock, limiters[l].maxRequests),
        alone |-> OutcomeOf(ownCounts[l][clientId], clock, limiters[l].maxRequests)]]
  /\ UNCHANGED <<PairOthers, clock, limiters>>

PairTick ==
  /\ clock < MaxPairClock
  /\ clock' = clock + 1
  /\ UNCHANGED <<PairOthers, requestCounts, seen, limiters, ownCounts, through>>

\* the entries whose window has ended, removed
Swept(table, now) ==
  [c \in ClientIds |->
     IF table[c].present /\ now > table[c].resetTime THEN NoEntry ELSE table[c]]
\* the callback of setInterval
PairCleanup ==
  /\ requestCounts' = Swept(requestCounts, clock)
  /\ ownCounts' = [l \in LimiterIds |-> Swept(ownCounts[l], clock)]
  /\ UNCHANGED <<PairOthers, clock, seen, limiters, through>>

PairNext ==
  \/ \E l \in LimiterIds, maxRequests \in 1..MaxLimit, windowMs \in 1..MaxWindow :
       CreateLimiter(l, maxRequests, windowMs)
  \/ \E l \in LimiterIds, c \in PairClients : LimitBy(l, c)
  \/ PairTick
  \/ PairCleanup

PairSpec == Init /\ [][PairNext]_vars

\* C37: every request through a limiter ends as it would with that limiter
\* the only one: what the other limiter has counted does not change whether
\* the request is passed on or rejected.
C37_LimitersIndependent ==
  \A l \in LimiterIds : through[l].outcome = through[l].alone

====
